---- MODULE Spec2Model ----
(***************************************************************************)
(* Model of the Monopoly investment simulator: board model, game state,    *)
(* mechanics engine (one player-turn), the Monte Carlo driver's trial loop *)
(* and aggregation, and the development optimizer.                         *)
(*                                                                         *)
(* Money is an integer number of currency units (every price, rent, tax    *)
(* and bonus of the program is integral).  risk_tolerance is kept in       *)
(* hundredths (60 stands for 0.6).                                         *)
(***************************************************************************)
EXTENDS Integers, Sequences, FiniteSets, TLC

(***************************************************************************)
(* Bounds of the model.                                                    *)
(***************************************************************************)
MaxTurns == 4
NumTrials == 2
MaxSeriesLen == 6
MaxBatch == 3
MaxCash == 700
MaxTurnSteps == 5

(***************************************************************************)
(* Program constants.                                                      *)
(***************************************************************************)
BoardSize == 40
JailPosition == 10
GoBonus == 200
IncomeTaxAmount == 200
LuxuryTaxAmount == 100
JailTerm == 3
GoToJailPosition == 30
DefaultRemainingTurns == 50
MinimumHouseCost == 50
HotelLevel == 5

NoOwner == 0

(***************************************************************************)
(* Board Model (properties.py).  The board is read from a spreadsheet; the *)
(* table below is the standard board the program's scenarios refer to.     *)
(***************************************************************************)
Positions == 0 .. (BoardSize - 1)

railroad_positions == <<5, 15, 25, 35>>
utility_positions == <<12, 28>>

StreetPositions ==
  {1, 3, 6, 8, 9, 11, 13, 14, 16, 18, 19, 21, 23, 24, 26, 27, 29, 31, 32, 34, 37, 39}

property_type(pos) ==
  IF pos \in StreetPositions THEN "Street"
  ELSE IF pos \in {5, 15, 25, 35} THEN "Railroad"
  ELSE IF pos \in {12, 28} THEN "Utility"
  ELSE "Action Spaces"

property_name(pos) ==
  IF pos = GoToJailPosition THEN "Go To Jail"
  ELSE IF pos = 4 THEN "Income Tax"
  ELSE IF pos = 38 THEN "Luxury Tax"
  ELSE "Other"

Colors == {"Brown", "Light Blue", "Pink", "Orange", "Red", "Yellow", "Green", "Dark Blue"}

\* MonopolyBoard.color_groups: color -> list of positions, in board order
color_groups ==
  [c \in Colors |->
     CASE c = "Brown" -> <<1, 3>>
       [] c = "Light Blue" -> <<6, 8, 9>>
       [] c = "Pink" -> <<11, 13, 14>>
       [] c = "Orange" -> <<16, 18, 19>>
       [] c = "Red" -> <<21, 23, 24>>
       [] c = "Yellow" -> <<26, 27, 29>>
       [] c = "Green" -> <<31, 32, 34>>
       [] c = "Dark Blue" -> <<37, 39>>]

Range(s) == {s[k] : k \in DOMAIN s}

\* Property.color ("None" for a space without a color)
color(pos) ==
  IF \E c \in Colors : pos \in Range(color_groups[c])
    THEN CHOOSE c \in Colors : pos \in Range(color_groups[c])
    ELSE "None"

\* Property.purchase_price (0 stands for None)
purchase_price(pos) ==
  CASE pos \in {1, 3} -> 60
    [] pos \in {6, 8} -> 100
    [] pos = 9 -> 120
    [] pos \in {11, 13} -> 140
    [] pos = 14 -> 160
    [] pos \in {16, 18} -> 180
    [] pos = 19 -> 200
    [] pos \in {21, 23} -> 220
    [] pos = 24 -> 240
    [] pos \in {26, 27} -> 260
    [] pos = 29 -> 280
    [] pos \in {31, 32} -> 300
    [] pos = 34 -> 320
    [] pos = 37 -> 350
    [] pos = 39 -> 400
    [] pos \in {5, 15, 25, 35} -> 200
    [] pos \in {12, 28} -> 150
    [] OTHER -> 0

\* Property.house_cost (0 stands for None)
house_cost(pos) ==
  CASE pos \in {1, 3, 6, 8, 9} -> 50
    [] pos \in {11, 13, 14, 16, 18, 19} -> 100
    [] pos \in {21, 23, 24, 26, 27, 29} -> 150
    [] pos \in {31, 32, 34, 37, 39} -> 200
    [] OTHER -> 0

\* the rent schedule of a street:
\* <<base_rent, rent_with_color_set, rent_1_house .. rent_4_house, rent_hotel>>
rent_schedule(pos) ==
  CASE pos = 1 -> <<2, 4, 10, 30, 90, 160, 250>>
    [] pos = 3 -> <<4, 8, 20, 60, 180, 320, 450>>
    [] pos \in {6, 8} -> <<6, 12, 30, 90, 270, 400, 550>>
    [] pos = 9 -> <<8, 16, 40, 100, 300, 450, 600>>
    [] pos \in {11, 13} -> <<10, 20, 50, 150, 450, 625, 750>>
    [] pos = 14 -> <<12, 24, 60, 180, 500, 700, 900>>
    [] pos \in {16, 18} -> <<14, 28, 70, 200, 550, 750, 950>>
    [] pos = 19 -> <<16, 32, 80, 220, 600, 800, 1000>>
    [] pos \in {21, 23} -> <<18, 36, 90, 250, 700, 875, 1050>>
    [] pos = 24 -> <<20, 40, 100, 300, 750, 925, 1100>>
    [] pos \in {26, 27} -> <<22, 44, 110, 330, 800, 975, 1150>>
    [] pos = 29 -> <<24, 48, 120, 360, 850, 1025, 1200>>
    [] pos \in {31, 32} -> <<26, 52, 130, 390, 900, 1100, 1275>>
    [] pos = 34 -> <<28, 56, 150, 450, 1000, 1200, 1400>>
    [] pos = 37 -> <<35, 70, 175, 500, 1100, 1300, 1500>>
    [] pos = 39 -> <<50, 100, 200, 600, 1400, 1700, 2000>>
    [] pos \in {5, 15, 25, 35} -> <<25, 0, 0, 0, 0, 0, 0>>
    [] OTHER -> <<0, 0, 0, 0, 0, 0, 0>>

\* Property.is_purchasable
is_purchasable(pos) == property_type(pos) \in {"Street", "Railroad", "Utility"}

\* get_rent looking at the color set before the houses
get_rent_color_set_first(pos, has_mono, houses) ==
  IF ~is_purchasable(pos) THEN 0
  ELSE IF has_mono /\ property_type(pos) = "Street" THEN rent_schedule(pos)[2]
  ELSE IF houses = 0 THEN rent_schedule(pos)[1]
  ELSE IF houses \in 1 .. 5 THEN rent_schedule(pos)[houses + 2]
  ELSE 0

\* Property.get_rent
get_rent(pos, has_mono, houses) ==
  IF ~is_purchasable(pos) THEN 0
  ELSE IF houses = 0
    THEN IF has_mono /\ property_type(pos) = "Street"
           THEN rent_schedule(pos)[2]
           ELSE rent_schedule(pos)[1]
  ELSE IF houses \in 1 .. 5 THEN rent_schedule(pos)[houses + 2]
  ELSE 0

\* MonopolyBoard.has_monopoly
has_monopoly(owned_positions, c) ==
  IF c \notin Colors THEN FALSE
  ELSE Range(color_groups[c]) \subseteq Range(owned_positions)


(***************************************************************************)
(* State.                                                                  *)
(*   player_configs  the player_configs argument (a list of dicts); each   *)
(*                   config's owned_properties is a list object, held in   *)
(*                   heap at the config's owned_ref                        *)
(*   heap            the list objects: reference -> list of positions      *)
(*   players, current_turn, current_player_idx, total_turns: GameState     *)
(*   mechanics       "none", "built" or "raised": the GameMechanics object *)
(*   turn, tracker, rent_by_turn, cumulative_rent: locals of               *)
(*                   run_single_simulation (rent_by_turn[t + 1] is the     *)
(*                   dict entry of turn t)                                 *)
(*   result          the SimulationResult returned last                    *)
(*   trial           number of trials started                              *)
(*   agg_results, agg_out: argument and return value of                    *)
(*                   _aggregate_results                                    *)
(*   events, mover: the list a take_turn call made on its own returned and *)
(*     the player it was made for (1-based, 0 before any call)            *)
(*   dev_selected, dev_player: return value of decide_development and the  *)
(*     player it was called for (1-based, 0 before any call)               *)
(***************************************************************************)
VARIABLES player_configs, heap, players, current_turn, current_player_idx,
          total_turns, mechanics, max_turns, target_player_idx,
          target_property_position, enable_house_building, turn, tracker,
          rent_by_turn, cumulative_rent, result, trial, pc,
          agg_results, agg_out, dev_selected, dev_player, events, mover,
          engine_landing_probs

vars == <<player_configs, heap, players, current_turn, current_player_idx,
          total_turns, mechanics, max_turns, target_player_idx,
          target_property_position, enable_house_building, turn, tracker,
          rent_by_turn, cumulative_rent, result, trial, pc,
          agg_results, agg_out, dev_selected, dev_player, events, mover,
          engine_landing_probs>>

gameVars == <<players, current_turn, current_player_idx, total_turns>>
inputVars == <<player_configs, max_turns, target_player_idx,
               target_property_position, enable_house_building>>
trackVars == <<turn, tracker, rent_by_turn, cumulative_rent>>
aggVars == <<agg_results, agg_out>>
devVars == <<dev_selected, dev_player>>
mechVars == <<events, mover>>
engineVars == <<engine_landing_probs>>

(***************************************************************************)
(* Player (game_state.py).                                                 *)
(***************************************************************************)
NumPlayers == Len(player_configs)

\* the reference of the list object create_game allocates for player i
PlayerRef(i) == NumPlayers + i

\* player.owned_properties, the list behind the player's reference
Owned(pl, hp, i) == hp[pl[i].owned_ref]

\* Player.owns_property
owns_property(pl, hp, i, pos) == pos \in Range(Owned(pl, hp, i))

\* Player.get_total_properties
get_total_properties(pl, hp, i) == Len(Owned(pl, hp, i))

\* Player.can_afford
can_afford(p, amount) == (p.cash - amount) >= p.min_cash_reserve

\* Player.pay handing over no more than the cash at hand
pay_cash_at_hand(p, amount) ==
  [p EXCEPT !.cash = IF p.cash - amount < 0 THEN 0 ELSE p.cash - amount,
            !.is_bankrupt = IF p.cash - amount < 0 THEN TRUE ELSE p.is_bankrupt]

\* Player.pay with the flag set at cash 0 too
pay_bankrupt_at_zero(p, amount) ==
  [p EXCEPT !.cash = p.cash - amount,
            !.is_bankrupt = IF p.cash - amount <= 0 THEN TRUE ELSE p.is_bankrupt]

\* Player.pay: the player after paying (the flag is set, never cleared)
pay(p, amount) ==
  [p EXCEPT !.cash = p.cash - amount,
            !.is_bankrupt = IF p.cash - amount < 0 THEN TRUE ELSE p.is_bankrupt]

\* Player.receive
receive(p, amount) == [p EXCEPT !.cash = p.cash + amount]

\* houses[position] = 0 on the houses dict
SetHouses(h, pos, n) ==
  [q \in (DOMAIN h) \cup {pos} |-> IF q = pos THEN n ELSE h[q]]

\* houses.get(pos, 0)
HousesGet(h, pos) == IF pos \in DOMAIN h THEN h[pos] ELSE 0

\* buy_property without the can_afford check
buy_property_unchecked(pl, hp, i, pos, price) ==
  [players |-> [pl EXCEPT ![i].cash = pl[i].cash - price,
                          ![i].houses = SetHouses(pl[i].houses, pos, 0)],
   heap |-> [hp EXCEPT ![pl[i].owned_ref] = Append(hp[pl[i].owned_ref], pos)],
   ok |-> TRUE]

\* buy_property without the houses entry
buy_property_without_houses(pl, hp, i, pos, price) ==
  IF ~can_afford(pl[i], price)
    THEN [players |-> pl, heap |-> hp, ok |-> FALSE]
    ELSE [players |-> [pl EXCEPT ![i].cash = pl[i].cash - price],
          heap |-> [hp EXCEPT ![pl[i].owned_ref] = Append(hp[pl[i].owned_ref], pos)],
          ok |-> TRUE]

\* Player.buy_property: [players, heap, ok]
buy_property(pl, hp, i, pos, price) ==
  IF ~can_afford(pl[i], price)
    THEN [players |-> pl, heap |-> hp, ok |-> FALSE]
    ELSE [players |-> [pl EXCEPT ![i].cash = pl[i].cash - price,
                                 ![i].houses = SetHouses(pl[i].houses, pos, 0)],
          heap |-> [hp EXCEPT ![pl[i].owned_ref] = Append(hp[pl[i].owned_ref], pos)],
          ok |-> TRUE]

\* Player.move with the bonus only for a move that ends beyond position 0
move_beyond_go(p, spaces) ==
  LET newpos == (p.position + spaces) % BoardSize
  IN [player |-> [p EXCEPT !.position = newpos],
      passed_go |-> p.position + spaces > BoardSize]

\* Player.move: [player, passed_go]
move(p, spaces) ==
  LET newpos == (p.position + spaces) % BoardSize
  IN [player |-> [p EXCEPT !.position = newpos],
      passed_go |-> newpos < p.position]

\* the dataclass equality of two players (field by field, lists by content)
PlayerEq(pl, hp, i, j) ==
  /\ [pl[i] EXCEPT !.owned_ref = 0] = [pl[j] EXCEPT !.owned_ref = 0]
  /\ Owned(pl, hp, i) = Owned(pl, hp, j)

(***************************************************************************)
(* GameState (game_state.py).                                              *)
(***************************************************************************)
\* get_property_owner searching from the second player on
get_property_owner_from_second(pl, hp, pos) ==
  IF \E i \in DOMAIN pl : i > 1 /\ owns_property(pl, hp, i, pos)
    THEN CHOOSE i \in DOMAIN pl :
           /\ i > 1
           /\ owns_property(pl, hp, i, pos)
           /\ \A j \in DOMAIN pl :
                (j > 1 /\ owns_property(pl, hp, j, pos)) => i <= j
    ELSE NoOwner

\* GameState.get_property_owner: index of the first owner, NoOwner if none
get_property_owner(pl, hp, pos) ==
  IF \E i \in DOMAIN pl : owns_property(pl, hp, i, pos)
    THEN CHOOSE i \in DOMAIN pl :
           /\ owns_property(pl, hp, i, pos)
           /\ \A j \in DOMAIN pl : owns_property(pl, hp, j, pos) => i <= j
    ELSE NoOwner

\* next_player counting a global turn on every call
next_player_turn_every_call(idx, turn_no, total, n) ==
  [current_player_idx |-> (idx + 1) % n,
   current_turn |-> turn_no + 1,
   total_turns |-> total + 1]

\* GameState.next_player: the three counters after the call, n players
next_player(idx, turn_no, total, n) ==
  [current_player_idx |-> (idx + 1) % n,
   current_turn |-> IF (idx + 1) % n = 0 THEN turn_no + 1 ELSE turn_no,
   total_turns |-> total + 1]

\* GameState.get_active_players (as the set of their indices)
get_active_players(pl) == {i \in DOMAIN pl : ~pl[i].is_bankrupt}

\* GameState.is_game_over
is_game_over(pl) == Cardinality(get_active_players(pl)) <= 1

\* get_winner returning an active player whenever there is one
get_winner_any_active(pl) ==
  IF Cardinality(get_active_players(pl)) >= 1
    THEN CHOOSE i \in get_active_players(pl) : TRUE
    ELSE NoOwner

\* GameState.get_winner: index of the winner, NoOwner if none
get_winner(pl) ==
  IF Cardinality(get_active_players(pl)) = 1
    THEN CHOOSE i \in get_active_players(pl) : TRUE
    ELSE NoOwner

\* GameState.player_has_monopoly
player_has_monopoly(pl, hp, i, c) == has_monopoly(Owned(pl, hp, i), c)

\* create_game without the .copy(): the player shares the config's list
NewPlayer_shared_list(cfgs, hp, i) ==
  [name |-> cfgs[i].name,
   cash |-> cfgs[i].cash,
   position |-> cfgs[i].position,
   owned_ref |-> cfgs[i].owned_ref,
   houses |-> [q \in Range(hp[cfgs[i].owned_ref]) |-> 0],
   in_jail |-> FALSE,
   jail_turns |-> 0,
   is_bankrupt |-> FALSE,
   risk_tolerance |-> cfgs[i].risk_tolerance,
   min_cash_reserve |-> cfgs[i].min_cash_reserve]

\* create_game: the players built from the configs, each with a copy of the
\* config's owned_properties list at its own reference
NewPlayer(cfgs, hp, i) ==
  [name |-> cfgs[i].name,
   cash |-> cfgs[i].cash,
   position |-> cfgs[i].position,
   owned_ref |-> Len(cfgs) + i,
   houses |-> [q \in Range(hp[cfgs[i].owned_ref]) |-> 0],
   in_jail |-> FALSE,
   jail_turns |-> 0,
   is_bankrupt |-> FALSE,
   risk_tolerance |-> cfgs[i].risk_tolerance,
   min_cash_reserve |-> cfgs[i].min_cash_reserve]

create_game_players(cfgs, hp) == [i \in DOMAIN cfgs |-> NewPlayer(cfgs, hp, i)]

create_game_heap(cfgs, hp) ==
  [r \in DOMAIN hp |->
     IF r > Len(cfgs) THEN hp[cfgs[r - Len(cfgs)].owned_ref] ELSE hp[r]]


(***************************************************************************)
(* Purchase strategies (strategies.py).  A strategy is called with the     *)
(* game, the player and the position and answers buy (TRUE) or pass.       *)
(***************************************************************************)
\* number of positions of the position's color group the player owns
owned_in_group(pl, hp, i, pos) ==
  Cardinality({k \in DOMAIN color_groups[color(pos)] :
                 owns_property(pl, hp, i, color_groups[color(pos)][k])})

completes_monopoly(pl, hp, i, pos) ==
  /\ color(pos) # "None"
  /\ property_type(pos) = "Street"
  /\ owned_in_group(pl, hp, i, pos) = Len(color_groups[color(pos)]) - 1

conservative_strategy(pl, hp, i, pos) ==
  IF ~is_purchasable(pos) \/ purchase_price(pos) = 0 THEN FALSE
  ELSE IF pl[i].cash < purchase_price(pos) * 3 THEN FALSE
  ELSE IF completes_monopoly(pl, hp, i, pos) THEN TRUE
  ELSE purchase_price(pos) <= 150

aggressive_strategy(pl, hp, i, pos) ==
  IF ~is_purchasable(pos) \/ purchase_price(pos) = 0 THEN FALSE
  ELSE IF pl[i].cash < purchase_price(pos) + 100 THEN FALSE
  ELSE IF property_type(pos) = "Utility" THEN get_total_properties(pl, hp, i) < 3
  ELSE IF purchase_price(pos) < 100 THEN get_total_properties(pl, hp, i) < 5
  ELSE TRUE

balanced_strategy(pl, hp, i, pos) ==
  IF ~is_purchasable(pos) \/ purchase_price(pos) = 0 THEN FALSE
  ELSE IF pl[i].cash < purchase_price(pos) * 2 + 250 THEN FALSE
  ELSE IF completes_monopoly(pl, hp, i, pos) THEN TRUE
  ELSE IF /\ color(pos) # "None"
          /\ property_type(pos) = "Street"
          /\ owned_in_group(pl, hp, i, pos) = 0
          /\ color(pos) \in {"Orange", "Red", "Yellow", "Green"} THEN TRUE
  ELSE IF property_type(pos) = "Railroad" THEN TRUE
  ELSE IF property_type(pos) = "Utility"
    THEN Cardinality({k \in DOMAIN utility_positions :
                        owns_property(pl, hp, i, utility_positions[k])}) = 1
  ELSE IF rent_schedule(pos)[7] # 0
    \* rent_hotel / purchase_price > 3.5
    THEN 2 * rent_schedule(pos)[7] > 7 * purchase_price(pos)
  ELSE FALSE

\* get_strategy: the strategy of a risk tolerance (in hundredths)
get_strategy(risk_tolerance) ==
  IF risk_tolerance < 40 THEN "conservative"
  ELSE IF risk_tolerance < 60 THEN "balanced"
  ELSE "aggressive"

base_strategy(kind, pl, hp, i, pos) ==
  CASE kind = "conservative" -> conservative_strategy(pl, hp, i, pos)
    [] kind = "balanced" -> balanced_strategy(pl, hp, i, pos)
    [] OTHER -> aggressive_strategy(pl, hp, i, pos)

\* the strategy_func run_single_simulation hands to take_turn: target_strategy
\* when the player is the analyzed one and purchase_target is set
strategy_func(kind, forced, target, pl, hp, i, pos) ==
  IF forced /\ pos = target THEN TRUE ELSE base_strategy(kind, pl, hp, i, pos)

(***************************************************************************)
(* Mechanics Engine (mechanics.py).                                        *)
(***************************************************************************)
Ev(e, pos, act, amt, ok) ==
  [event |-> e, position |-> pos, action |-> act, amount |-> amt, success |-> ok]

Pow2(n) == IF n <= 0 THEN 1 ELSE IF n = 1 THEN 2 ELSE IF n = 2 THEN 4 ELSE 8

\* calculate_rent with the railroad exponent one too high
calculate_rent_exponent(pl, hp, pos, o) ==
  LET owned_railroads == Cardinality({k \in DOMAIN railroad_positions :
                            owns_property(pl, hp, o, railroad_positions[k])})
      owned_utilities == Cardinality({k \in DOMAIN utility_positions :
                            owns_property(pl, hp, o, utility_positions[k])})
  IN IF property_type(pos) = "Railroad" THEN 25 * Pow2(owned_railroads)
     ELSE IF property_type(pos) = "Utility"
       THEN 7 * (IF owned_utilities = 2 THEN 10 ELSE 4)
     ELSE get_rent(pos,
                   IF color(pos) # "None" /\ property_type(pos) = "Street"
                     THEN player_has_monopoly(pl, hp, o, color(pos))
                     ELSE FALSE,
                   HousesGet(pl[o].houses, pos))

\* calculate_rent with the two utility multipliers exchanged
calculate_rent_multiplier(pl, hp, pos, o) ==
  LET owned_railroads == Cardinality({k \in DOMAIN railroad_positions :
                            owns_property(pl, hp, o, railroad_positions[k])})
      owned_utilities == Cardinality({k \in DOMAIN utility_positions :
                            owns_property(pl, hp, o, utility_positions[k])})
  IN IF property_type(pos) = "Railroad" THEN 25 * Pow2(owned_railroads - 1)
     ELSE IF property_type(pos) = "Utility"
       THEN 7 * (IF owned_utilities = 2 THEN 4 ELSE 10)
     ELSE get_rent(pos,
                   IF color(pos) # "None" /\ property_type(pos) = "Street"
                     THEN player_has_monopoly(pl, hp, o, color(pos))
                     ELSE FALSE,
                   HousesGet(pl[o].houses, pos))

\* GameMechanics.calculate_rent (o is the owner's index)
calculate_rent(pl, hp, pos, o) ==
  LET houses == HousesGet(pl[o].houses, pos)
      mono == IF color(pos) # "None" /\ property_type(pos) = "Street"
                THEN player_has_monopoly(pl, hp, o, color(pos))
                ELSE FALSE
      owned_railroads == Cardinality({k \in DOMAIN railroad_positions :
                            owns_property(pl, hp, o, railroad_positions[k])})
      owned_utilities == Cardinality({k \in DOMAIN utility_positions :
                            owns_property(pl, hp, o, utility_positions[k])})
  IN IF property_type(pos) = "Railroad" THEN 25 * Pow2(owned_railroads - 1)
     ELSE IF property_type(pos) = "Utility"
       THEN 7 * (IF owned_utilities = 2 THEN 10 ELSE 4)
     ELSE get_rent(pos, mono, houses)

\* GameMechanics.move_player: the player after the move (bonus included)
move_player(p, spaces) ==
  LET m == move(p, spaces)
  IN [player |-> IF m.passed_go THEN receive(m.player, GoBonus) ELSE m.player,
      passed_go |-> m.passed_go]

\* GameMechanics.handle_landing: [players, position, action, amount]
handle_landing(pl, hp, i) ==
  LET position == pl[i].position
      owner == get_property_owner(pl, hp, position)
      rent == calculate_rent(pl, hp, position, owner)
      tax == IF property_name(position) = "Income Tax"
               THEN IncomeTaxAmount ELSE LuxuryTaxAmount
      paid == [pl EXCEPT ![i] = pay(pl[i], rent)]
  IN IF property_name(position) = "Go To Jail"
       THEN [players |-> [pl EXCEPT ![i].position = JailPosition,
                                    ![i].in_jail = TRUE],
             position |-> position, action |-> "go_to_jail", amount |-> 0]
     ELSE IF property_name(position) \in {"Income Tax", "Luxury Tax"}
       THEN [players |-> [pl EXCEPT ![i] = pay(pl[i], tax)],
             position |-> position, action |-> "pay_tax", amount |-> 0 - tax]
     ELSE IF ~is_purchasable(position)
       THEN [players |-> pl, position |-> position,
             action |-> "free_space", amount |-> 0]
     ELSE IF owner = NoOwner
       THEN [players |-> pl, position |-> position,
             action |-> "available_for_purchase",
             amount |-> purchase_price(position)]
     ELSE IF PlayerEq(pl, hp, owner, i)
       THEN [players |-> pl, position |-> position,
             action |-> "own_property", amount |-> 0]
     ELSE [players |-> [paid EXCEPT ![owner] = receive(paid[owner], rent)],
           position |-> position, action |-> "pay_rent", amount |-> 0 - rent]

\* GameMechanics.purchase_property: [players, heap, ok]
purchase_property(pl, hp, i, pos) ==
  IF ~is_purchasable(pos) THEN [players |-> pl, heap |-> hp, ok |-> FALSE]
  ELSE IF get_property_owner(pl, hp, pos) # NoOwner
    THEN [players |-> pl, heap |-> hp, ok |-> FALSE]
  ELSE IF purchase_price(pos) = 0 THEN [players |-> pl, heap |-> hp, ok |-> FALSE]
  ELSE buy_property(pl, hp, i, pos, purchase_price(pos))

\* the jail branch releasing only after the counter has passed 3
take_turn_jail_late(pl, hp, i) ==
  LET n == pl[i].jail_turns + 1
  IN [players |-> IF n > JailTerm
                    THEN [pl EXCEPT ![i].in_jail = FALSE, ![i].jail_turns = 0]
                    ELSE [pl EXCEPT ![i].jail_turns = n],
      heap |-> hp,
      events |-> <<Ev("in_jail", 0, "none", 0, FALSE)>>]

\* the jail branch of take_turn
take_turn_jail(pl, hp, i) ==
  LET n == pl[i].jail_turns + 1
  IN [players |-> IF n >= JailTerm
                    THEN [pl EXCEPT ![i].in_jail = FALSE, ![i].jail_turns = 0]
                    ELSE [pl EXCEPT ![i].jail_turns = n],
      heap |-> hp,
      events |-> <<Ev("in_jail", 0, "none", 0, FALSE)>>]

\* the roll, move, landing and purchase of take_turn
take_turn_roll(pl, hp, i, die1, die2, kind, forced, target) ==
  LET total == die1 + die2
      m == move_player(pl[i], total)
      moved == [pl EXCEPT ![i] = m.player]
      landing == handle_landing(moved, hp, i)
      landed == landing.players
      ev1 == <<Ev("roll", 0, "none", total, die1 = die2)>>
      ev2 == IF m.passed_go
               THEN Append(ev1, Ev("passed_go", 0, "none", GoBonus, FALSE)) ELSE ev1
      ev3 == Append(ev2, Ev("landing", landing.position, landing.action,
                            landing.amount, FALSE))
      should_buy == strategy_func(kind, forced, target, landed, hp, i,
                                  landed[i].position)
      bought == purchase_property(landed, hp, i, landed[i].position)
  IN IF landing.action = "available_for_purchase" /\ should_buy
       THEN [players |-> bought.players, heap |-> bought.heap,
             events |-> Append(ev3, Ev("purchase", landed[i].position, "none",
                                       IF bought.ok THEN 0 - landing.amount ELSE 0,
                                       bought.ok))]
       ELSE [players |-> landed, heap |-> hp, events |-> ev3]

\* take_turn without the early return for a bankrupt player
take_turn_bankrupt_plays(pl, hp, i, die1, die2, kind, forced, target) ==
  IF pl[i].in_jail THEN take_turn_jail(pl, hp, i)
  ELSE take_turn_roll(pl, hp, i, die1, die2, kind, forced, target)

\* GameMechanics.take_turn: [players, heap, events]
take_turn(pl, hp, i, die1, die2, kind, forced, target) ==
  IF pl[i].is_bankrupt THEN [players |-> pl, heap |-> hp, events |-> <<>>]
  ELSE IF pl[i].in_jail THEN take_turn_jail(pl, hp, i)
  ELSE take_turn_roll(pl, hp, i, die1, die2, kind, forced, target)


(***************************************************************************)
(* Monte Carlo driver (simulator.py): one trial.                           *)
(***************************************************************************)
\* PropertyTracker as constructed (the position and the name are inputs)
NewTracker ==
  [was_purchased |-> FALSE, purchase_turn |-> -1, purchase_price |-> 0,
   total_rent_collected |-> 0, total_rent_paid |-> 0, rent_events |-> <<>>,
   owner_name |-> ""]

NoResult ==
  [turns_played |-> -1, property_purchased |-> FALSE, purchase_turn |-> -1,
   purchase_price |-> 0, total_rent_collected |-> 0, total_rent_paid |-> 0,
   rent_by_turn |-> <<>>, break_even_turn |-> -1, final_player_cash |-> 0,
   player_won |-> FALSE, player_bankrupt |-> FALSE]

\* game.players.index(owner): the first index whose player equals the owner
players_index(pl, hp, o) ==
  CHOOSE k \in DOMAIN pl :
    /\ PlayerEq(pl, hp, k, o)
    /\ \A j \in DOMAIN pl : PlayerEq(pl, hp, j, o) => k <= j

\* the body of "for event in events" for one event; st = [tracker, cum]
track_event(st, ev, pl, hp, player_idx, t) ==
  LET owner == get_property_owner(pl, hp, target_property_position)
      rent_amount == 0 - ev.amount
  IN IF ev.event = "purchase" /\ ev.success
       THEN IF ev.position = target_property_position
              THEN [st EXCEPT !.tracker.was_purchased = TRUE,
                              !.tracker.purchase_turn = t,
                              !.tracker.purchase_price = 0 - ev.amount,
                              !.tracker.owner_name = pl[player_idx + 1].name]
              ELSE st
     ELSE IF ev.event = "landing" /\ ev.action = "pay_rent"
       THEN IF ev.position = target_property_position
              THEN IF player_idx = target_player_idx
                     THEN [st EXCEPT !.tracker.total_rent_paid = @ + rent_amount]
                   ELSE IF /\ owner # NoOwner
                           /\ players_index(pl, hp, owner) - 1 = target_player_idx
                     THEN [st EXCEPT
                             !.tracker.total_rent_collected = @ + rent_amount,
                             !.tracker.rent_events = Append(@, <<t, rent_amount>>),
                             !.cum = @ + rent_amount]
                   ELSE st
              ELSE st
     ELSE st

RECURSIVE track_events(_, _, _, _, _, _)
track_events(st, evs, pl, hp, player_idx, t) ==
  IF evs = <<>> THEN st
  ELSE track_events(track_event(st, Head(evs), pl, hp, player_idx, t),
                    Tail(evs), pl, hp, player_idx, t)

\* the entry without the purchase price
rent_entry_gross(trk, cum) ==
  IF trk.was_purchased THEN cum ELSE 0

\* the entry rent_by_turn[turn] written at the end of an iteration
rent_entry(trk, cum) ==
  IF trk.was_purchased THEN cum - trk.purchase_price ELSE 0

RECURSIVE break_even_scan_positive(_, _, _)
break_even_scan_positive(rbt, purchase_turn, t) ==
  IF t >= Len(rbt) THEN -1
  ELSE IF t > purchase_turn /\ rbt[t + 1] > 0 THEN t
  ELSE break_even_scan_positive(rbt, purchase_turn, t + 1)

\* lines 138-144: the first turn after the purchase turn whose entry is >= 0
RECURSIVE break_even_scan(_, _, _)
break_even_scan(rbt, purchase_turn, t) ==
  IF t >= Len(rbt) THEN -1
  ELSE IF t > purchase_turn /\ rbt[t + 1] >= 0 THEN t
  ELSE break_even_scan(rbt, purchase_turn, t + 1)

break_even_turn(trk, rbt) ==
  IF trk.was_purchased THEN break_even_scan(rbt, trk.purchase_turn, 0) ELSE -1

\* the loop condition of line 86
LoopCondition == turn < max_turns /\ ~is_game_over(players)

\* what one iteration of the loop does with the turn take_turn produced
LoopBody(r) ==
  LET st == track_events([tracker |-> tracker, cum |-> cumulative_rent],
                         r.events, r.players, r.heap, current_player_idx, turn)
      nxt == next_player(current_player_idx, current_turn, total_turns,
                         Len(players))
  IN /\ players' = r.players
     /\ heap' = r.heap
     /\ tracker' = st.tracker
     /\ cumulative_rent' = st.cum
     /\ rent_by_turn' = Append(rent_by_turn, rent_entry(st.tracker, st.cum))
     \* game.next_player()
     /\ current_player_idx' = nxt.current_player_idx
     /\ current_turn' = nxt.current_turn
     /\ total_turns' = nxt.total_turns
     /\ turn' = turn + 1
     /\ UNCHANGED <<inputVars, mechVars, engineVars, mechanics, result, trial, pc, aggVars, devVars>>

CurrentKind == get_strategy(players[current_player_idx + 1].risk_tolerance)
\* purchase_target is True in every call run_monte_carlo makes
CurrentForced == current_player_idx = target_player_idx

\* create_game (simulator.py line 71)
CreateGame ==
  /\ pc = "start"
  /\ trial < NumTrials
  /\ players' = create_game_players(player_configs, heap)
  /\ heap' = create_game_heap(player_configs, heap)
  /\ current_turn' = 0
  /\ current_player_idx' = 0
  /\ total_turns' = 0
  /\ trial' = trial + 1
  /\ mechanics' = "none"
  /\ result' = NoResult
  /\ pc' = "construct"
  /\ UNCHANGED <<inputVars, mechVars, engineVars, trackVars, aggVars, devVars>>

\* GameMechanics.__init__(self, game_state): the keywords it accepts
init_keywords == {"game_state"}

\* a call GameMechanics(game, **keywords): "built", or "raised" (TypeError:
\* unexpected keyword argument) when a keyword is not a parameter
construct_mechanics(keywords) ==
  IF keywords \subseteq init_keywords THEN "built" ELSE "raised"

\* lines 72-85 with the given constructor keywords: the mechanics object, the
\* tracker and the loop's locals; a raised TypeError ends the call, and so
\* does the IndexError of board.get_property (line 77) on a position that is
\* not an index of the board's list
Construct(keywords) ==
  /\ pc = "construct"
  /\ mechanics' = construct_mechanics(keywords)
  /\ IF /\ construct_mechanics(keywords) = "built"
        /\ target_property_position \in Positions
       THEN /\ tracker' = NewTracker
            /\ rent_by_turn' = <<>>
            /\ cumulative_rent' = 0
            /\ turn' = 0
            /\ pc' = "loop"
       ELSE /\ UNCHANGED trackVars
            /\ pc' = "raised"
  /\ UNCHANGED <<inputVars, mechVars, engineVars, heap, gameVars, result, trial, aggVars, devVars>>

\* simulator.py line 72: GameMechanics(game, enable_house_building=...)
ConstructMechanics == Construct({"enable_house_building"})

\* mechanics.py line 237: GameMechanics(game)
BuildMechanics == Construct({})

\* an iteration whose current player is bankrupt
TurnBankrupt ==
  /\ pc = "loop"
  /\ LoopCondition
  /\ players[current_player_idx + 1].is_bankrupt
  /\ LoopBody(take_turn(players, heap, current_player_idx + 1, 1, 1,
                        CurrentKind, CurrentForced, target_property_position))

\* an iteration whose current player is in jail
TurnInJail ==
  /\ pc = "loop"
  /\ LoopCondition
  /\ ~players[current_player_idx + 1].is_bankrupt
  /\ players[current_player_idx + 1].in_jail
  /\ LoopBody(take_turn(players, heap, current_player_idx + 1, 1, 1,
                        CurrentKind, CurrentForced, target_property_position))

\* an iteration whose current player rolls die1 and die2
TurnRoll ==
  /\ pc = "loop"
  /\ LoopCondition
  /\ ~players[current_player_idx + 1].is_bankrupt
  /\ ~players[current_player_idx + 1].in_jail
  \* two dice; the turn depends on the unordered pair only
  /\ \E die1 \in 1 .. 6, die2 \in 1 .. 6 :
       /\ die1 <= die2
       /\ LoopBody(take_turn(players, heap, current_player_idx + 1, die1, die2,
                          CurrentKind, CurrentForced, target_property_position))

\* lines 138-162: the SimulationResult of the trial
simulation_result ==
  LET tp == target_player_idx + 1
      winner == get_winner(players)
  IN [turns_played |-> turn,
      property_purchased |-> tracker.was_purchased,
      purchase_turn |-> tracker.purchase_turn,
      purchase_price |-> tracker.purchase_price,
      total_rent_collected |-> tracker.total_rent_collected,
      total_rent_paid |-> tracker.total_rent_paid,
      rent_by_turn |-> rent_by_turn,
      break_even_turn |-> break_even_turn(tracker, rent_by_turn),
      final_player_cash |-> players[tp].cash,
      player_won |-> IF winner # NoOwner
                       THEN PlayerEq(players, heap, winner, tp) ELSE FALSE,
      player_bankrupt |-> players[tp].is_bankrupt]

\* the loop ends and run_single_simulation returns; game.players[
\* target_player_idx] (line 146) raises IndexError on an index that is not
\* an index of the list
ReturnResult ==
  /\ pc = "loop"
  /\ ~LoopCondition
  /\ IF target_player_idx + 1 \in DOMAIN players
       THEN /\ result' = simulation_result
            /\ pc' = "start"
       ELSE /\ result' = result
            /\ pc' = "raised"
  /\ UNCHANGED <<inputVars, mechVars, engineVars, heap, gameVars, mechanics, trackVars, trial,
                 aggVars, devVars>>


(***************************************************************************)
(* Inputs: the player configurations the trials are run on.                *)
(***************************************************************************)
Cfg(n, c, p, o, r) ==
  [name |-> n, cash |-> c, position |-> p, owned |-> o,
   risk_tolerance |-> r, min_cash_reserve |-> 200]

\* the analyzed player holds three railroads and is forced to buy the fourth;
\* the opponent cannot pay its rent
ScenarioRailroads ==
  [configs |-> <<Cfg("You", 420, 0, <<15, 25, 35>>, 60),
                 Cfg("Opponent", 150, 0, <<>>, 50)>>,
   target_player_idx |-> 0, target_property_position |-> 5]

\* three players, the first of them next to Go To Jail and Luxury Tax with
\* cash 50 and one property
ScenarioThree ==
  [configs |-> <<Cfg("Player 1", 50, 28, <<1>>, 50),
                 Cfg("You", 520, 20, <<31>>, 60),
                 Cfg("Player 3", 300, 25, <<5, 15>>, 30)>>,
   target_player_idx |-> 1, target_property_position |-> 32]

\* two players at the start space; either may reach the tracked property first
ScenarioStart ==
  [configs |-> <<Cfg("You", 330, 0, <<>>, 20),
                 Cfg("Opponent", 330, 0, <<>>, 80)>>,
   target_player_idx |-> 0, target_property_position |-> 6]

\* a target player index that is not an index of the two-player list
ScenarioBadIndex ==
  [configs |-> <<Cfg("You", 420, 0, <<15, 25, 35>>, 60),
                 Cfg("Opponent", 150, 0, <<>>, 50)>>,
   target_player_idx |-> 2, target_property_position |-> 5]

\* a target position that is not a position of the board
ScenarioBadPosition ==
  [configs |-> <<Cfg("You", 420, 0, <<15, 25, 35>>, 60),
                 Cfg("Opponent", 150, 0, <<>>, 50)>>,
   target_player_idx |-> 0, target_property_position |-> BoardSize]

Scenarios ==
  {ScenarioRailroads, ScenarioThree, ScenarioStart, ScenarioBadIndex,
   ScenarioBadPosition}

ConfigsOf(sc) ==
  [i \in DOMAIN sc.configs |->
     [name |-> sc.configs[i].name, cash |-> sc.configs[i].cash,
      position |-> sc.configs[i].position, owned_ref |-> i,
      risk_tolerance |-> sc.configs[i].risk_tolerance,
      min_cash_reserve |-> sc.configs[i].min_cash_reserve]]

\* the list objects before any game exists: the configs' lists
HeapOf(sc) ==
  [r \in 1 .. (2 * Len(sc.configs)) |->
     IF r <= Len(sc.configs) THEN sc.configs[r].owned ELSE <<>>]

NoAggregate == [status |-> "none"]

InitIdle ==
  /\ players = <<>>
  /\ current_turn = 0
  /\ current_player_idx = 0
  /\ total_turns = 0
  /\ mechanics = "none"
  /\ turn = 0
  /\ tracker = NewTracker
  /\ rent_by_turn = <<>>
  /\ cumulative_rent = 0
  /\ result = NoResult
  /\ trial = 0

InitOther ==
  /\ agg_results = <<>>
  /\ agg_out = NoAggregate
  /\ dev_selected = <<>>
  /\ dev_player = 0
  /\ events = <<>>
  /\ mover = 0

Init ==
  /\ \E sc \in Scenarios :
       /\ player_configs = ConfigsOf(sc)
       /\ heap = HeapOf(sc)
       /\ target_player_idx = sc.target_player_idx
       /\ target_property_position = sc.target_property_position
  /\ max_turns \in {2, MaxTurns}
  /\ enable_house_building = FALSE
  /\ pc = "start"
  /\ InitIdle
  /\ InitOther
  /\ engine_landing_probs = <<>>

\* the trials of a batch, driven over a mechanics object built as
\* GameMechanics(game)
Next ==
  \/ CreateGame
  \/ BuildMechanics
  \/ TurnBankrupt
  \/ TurnInJail
  \/ TurnRoll
  \/ ReturnResult

Spec == Init /\ [][Next]_vars


(***************************************************************************)
(* run_monte_carlo as written: every trial is run_single_simulation, whose *)
(* line 72 constructs the mechanics with the enable_house_building keyword.*)
(***************************************************************************)
InitSim ==
  /\ \E sc \in Scenarios :
       /\ player_configs = ConfigsOf(sc)
       /\ heap = HeapOf(sc)
       /\ target_player_idx = sc.target_player_idx
       /\ target_property_position \in {sc.target_property_position, 39}
  /\ max_turns \in 0 .. MaxTurns
  /\ enable_house_building \in BOOLEAN
  /\ pc = "start"
  /\ InitIdle
  /\ InitOther
  /\ engine_landing_probs = <<>>

NextSim ==
  \/ CreateGame
  \/ ConstructMechanics

SpecSim == InitSim /\ [][NextSim]_vars

(***************************************************************************)
(* The break-even computation of lines 138-144 on its own, applied to the  *)
(* tracker and the rent_by_turn series a trial's loop can leave behind:    *)
(* entries are 0 until the purchase, -price on the purchase turn, and the  *)
(* collected rent minus the price afterwards.                              *)
(***************************************************************************)
RentIncrements == {0, 100, 200}
PurchasePrices == {100, 300}

\* the series of the scenario: price 300, bought on turn 0
ScenarioSeries == <<-300, -280, -240, -180, -100, 0>>

RECURSIVE SumTo(_, _, _)
SumTo(f, a, b) == IF a > b THEN 0 ELSE f[a] + SumTo(f, a + 1, b)

\* line 133 over a whole trial: the entry of turn t (index t + 1)
SeriesOf(len, pt, price, incs) ==
  [k \in 1 .. len |->
     IF pt < 0 \/ k - 1 < pt THEN 0 ELSE SumTo(incs, pt + 2, k) - price]

InitBE ==
  /\ \E sc \in {ScenarioStart} :
       /\ player_configs = ConfigsOf(sc)
       /\ heap = HeapOf(sc)
       /\ target_player_idx = sc.target_player_idx
       /\ target_property_position = sc.target_property_position
  /\ enable_house_building = FALSE
  /\ InitOther
  /\ engine_landing_probs = <<>>
  /\ players = <<>>
  /\ current_turn = 0
  /\ current_player_idx = 0
  /\ total_turns = 0
  /\ mechanics = "none"
  /\ cumulative_rent = 0
  /\ result = NoResult
  /\ trial = 1
  /\ pc = "break_even"
  /\ \/ \E len \in 0 .. MaxSeriesLen, pt \in -1 .. MaxSeriesLen - 1,
           price \in PurchasePrices,
           incs \in [1 .. MaxSeriesLen -> RentIncrements] :
          /\ pt < len
          /\ rent_by_turn = SeriesOf(len, pt, price, incs)
          /\ tracker = [NewTracker EXCEPT
                          !.was_purchased = (pt >= 0),
                          !.purchase_turn = pt,
                          !.purchase_price = IF pt >= 0 THEN price ELSE 0]
     \/ /\ rent_by_turn = ScenarioSeries
        /\ tracker = [NewTracker EXCEPT !.was_purchased = TRUE,
                                        !.purchase_turn = 0,
                                        !.purchase_price = 300]
  /\ turn = Len(rent_by_turn)
  /\ max_turns = turn

\* lines 138-144
BreakEven ==
  /\ pc = "break_even"
  /\ result' = [NoResult EXCEPT
                  !.turns_played = turn,
                  !.property_purchased = tracker.was_purchased,
                  !.purchase_turn = tracker.purchase_turn,
                  !.purchase_price = tracker.purchase_price,
                  !.rent_by_turn = rent_by_turn,
                  !.break_even_turn = break_even_turn(tracker, rent_by_turn)]
  /\ pc' = "done"
  /\ UNCHANGED <<inputVars, mechVars, engineVars, heap, gameVars, mechanics, trackVars, trial,
                 aggVars, devVars>>

NextBE == BreakEven

SpecBE == InitBE /\ [][NextBE]_vars


(***************************************************************************)
(* Aggregation (_aggregate_results, simulator.py lines 197-262).  Numbers  *)
(* that numpy computes by division are exact rationals in lowest terms; a   *)
(* standard deviation is carried as its square, the variance.              *)
(***************************************************************************)
RECURSIVE GCD(_, _)
GCD(a, b) == IF b = 0 THEN a ELSE GCD(b, a % b)

Abs(x) == IF x < 0 THEN -x ELSE x

Rat(n, d) ==
  LET g == GCD(Abs(n), d)
  IN [num |-> n \div g, den |-> d \div g]

RECURSIVE SeqSum(_)
SeqSum(xs) == IF xs = <<>> THEN 0 ELSE Head(xs) + SeqSum(Tail(xs))

RECURSIVE Insert(_, _)
Insert(x, sorted) ==
  IF sorted = <<>> THEN <<x>>
  ELSE IF x <= Head(sorted) THEN <<x>> \o sorted
  ELSE <<Head(sorted)>> \o Insert(x, Tail(sorted))

RECURSIVE Sort(_)
Sort(xs) == IF xs = <<>> THEN <<>> ELSE Insert(Head(xs), Sort(Tail(xs)))

\* np.mean, np.median, np.std (squared), np.percentile (linear interpolation)
np_mean(xs) == Rat(SeqSum(xs), Len(xs))

np_median(xs) ==
  LET srt == Sort(xs)
      n == Len(xs)
  IN Rat(srt[(n - 1) \div 2 + 1] + srt[n \div 2 + 1], 2)

np_var(xs) ==
  LET n == Len(xs)
      sq == [k \in 1 .. n |-> xs[k] * xs[k]]
  IN Rat(n * SeqSum(sq) - SeqSum(xs) * SeqSum(xs), n * n)

np_percentile(xs, q) ==
  LET srt == Sort(xs)
      n == Len(xs)
      lo == ((n - 1) * q) \div 100
      rem == ((n - 1) * q) % 100
      hi == IF lo + 1 < n THEN lo + 1 ELSE lo
  IN Rat(100 * srt[lo + 1] + rem * (srt[hi + 1] - srt[lo + 1]), 100)

Bool01(b) == IF b THEN 1 ELSE 0

\* line 201
purchased_results(results) ==
  SelectSeq(results, LAMBDA r : r.property_purchased)

\* the break-even turns without the > 0 filter
break_even_turns_unfiltered(purchased) ==
  [k \in 1 .. Len(purchased) |-> purchased[k].break_even_turn]

\* lines 213-214: in the order of the results
break_even_turns(purchased) ==
  LET valid == SelectSeq(purchased, LAMBDA r : r.break_even_turn > 0)
  IN [k \in 1 .. Len(valid) |-> valid[k].break_even_turn]

\* line 217
max_turn(purchased) ==
  CHOOSE t \in {purchased[k].turns_played : k \in DOMAIN purchased} :
    \A k \in DOMAIN purchased : purchased[k].turns_played <= t

\* line 223: r.rent_by_turn.get(t, 0)
rent_get(r, t) ==
  IF t < Len(r.rent_by_turn) THEN r.rent_by_turn[t + 1] ELSE 0

\* one column of rent_by_turn_array (axis 0)
rent_column(purchased, t) ==
  [k \in 1 .. Len(purchased) |-> rent_get(purchased[k], t)]

\* lines 229-260
aggregate_stats(results, purchased, position) ==
  LET bet == break_even_turns(purchased)
      rents == [k \in 1 .. Len(purchased) |-> purchased[k].total_rent_collected]
      cols == 1 .. max_turn(purchased) + 1
      col(c) == rent_column(purchased, c - 1)
  IN [property_name |-> property_name(position),
      property_position |-> position,
      property_price |-> purchase_price(position),
      num_simulations |-> Len(results),
      purchase_rate |-> Rat(Len(purchased), Len(results)),
      break_even_mean |-> IF bet # <<>> THEN np_mean(bet) ELSE Rat(-1, 1),
      break_even_median |-> IF bet # <<>> THEN np_median(bet) ELSE Rat(-1, 1),
      break_even_std |-> IF bet # <<>> THEN np_var(bet) ELSE Rat(0, 1),
      break_even_distribution |-> bet,
      break_even_rate |-> Rat(Len(bet), Len(purchased)),
      total_rent_mean |-> np_mean(rents),
      total_rent_median |-> np_median(rents),
      total_rent_std |-> np_var(rents),
      rent_by_turn_mean |-> [c \in cols |-> np_mean(col(c))],
      rent_by_turn_std |-> [c \in cols |-> np_var(col(c))],
      rent_by_turn_p25 |-> [c \in cols |-> np_percentile(col(c), 25)],
      rent_by_turn_p75 |-> [c \in cols |-> np_percentile(col(c), 75)],
      win_rate |-> np_mean([k \in 1 .. Len(purchased) |->
                              Bool01(purchased[k].player_won)]),
      bankruptcy_rate |-> np_mean([k \in 1 .. Len(purchased) |->
                                     Bool01(purchased[k].player_bankrupt)]),
      final_cash_mean |-> np_mean([k \in 1 .. Len(purchased) |->
                                     purchased[k].final_player_cash])]

\* lines 204-210
never_purchased(position) ==
  [property_name |-> property_name(position),
   property_price |-> purchase_price(position),
   purchase_rate |-> Rat(0, 1),
   error |-> "Property never purchased in simulations"]

\* without the guard of line 203 the max of line 217 has nothing to take
aggregate_results_unguarded(results, position) ==
  LET purchased == purchased_results(results)
  IN IF purchased = <<>>
       THEN [raised |-> "ValueError"]
       ELSE aggregate_stats(results, purchased, position)

aggregate_results(results, position) ==
  LET purchased == purchased_results(results)
  IN IF purchased = <<>>
       THEN never_purchased(position)
       ELSE aggregate_stats(results, purchased, position)

\* Results of trials of ScenarioRailroads with max_turns 4
ResultBrokeEvenEarly ==
  [turns_played |-> 2, property_purchased |-> TRUE, purchase_turn |-> 0,
   purchase_price |-> 200, total_rent_collected |-> 200, total_rent_paid |-> 0,
   rent_by_turn |-> <<-200, 0>>, break_even_turn |-> 1,
   final_player_cash |-> 420, player_won |-> TRUE, player_bankrupt |-> FALSE]

ResultBrokeEvenLate ==
  [turns_played |-> 4, property_purchased |-> TRUE, purchase_turn |-> 2,
   purchase_price |-> 200, total_rent_collected |-> 200, total_rent_paid |-> 0,
   rent_by_turn |-> <<0, 0, -200, 0>>, break_even_turn |-> 3,
   final_player_cash |-> 420, player_won |-> TRUE, player_bankrupt |-> FALSE]

ResultNoBreakEven ==
  [turns_played |-> 2, property_purchased |-> TRUE, purchase_turn |-> 0,
   purchase_price |-> 200, total_rent_collected |-> 0, total_rent_paid |-> 0,
   rent_by_turn |-> <<-200, -200>>, break_even_turn |-> -1,
   final_player_cash |-> 220, player_won |-> TRUE, player_bankrupt |-> FALSE]

ResultNotPurchased ==
  [turns_played |-> 2, property_purchased |-> FALSE, purchase_turn |-> -1,
   purchase_price |-> 0, total_rent_collected |-> 0, total_rent_paid |-> 0,
   rent_by_turn |-> <<0, 0>>, break_even_turn |-> -1,
   final_player_cash |-> 420, player_won |-> TRUE, player_bankrupt |-> FALSE]

ResultSet == {ResultBrokeEvenEarly, ResultBrokeEvenLate, ResultNoBreakEven,
              ResultNotPurchased}

InitAgg ==
  /\ \E sc \in {ScenarioRailroads} :
       /\ player_configs = ConfigsOf(sc)
       /\ heap = HeapOf(sc)
       /\ target_player_idx = sc.target_player_idx
       /\ target_property_position = sc.target_property_position
  /\ max_turns = 4
  /\ enable_house_building = FALSE
  /\ InitIdle
  /\ \E n \in 0 .. MaxBatch : agg_results \in [1 .. n -> ResultSet]
  /\ agg_out = NoAggregate
  /\ dev_selected = <<>>
  /\ dev_player = 0
  /\ events = <<>>
  /\ mover = 0
  /\ engine_landing_probs = <<>>
  /\ pc = "aggregate"

\* line 195
Aggregate ==
  /\ pc = "aggregate"
  /\ agg_out' = aggregate_results(agg_results, target_property_position)
  /\ pc' = "done"
  /\ UNCHANGED <<inputVars, mechVars, engineVars, heap, gameVars, mechanics, trackVars, result,
                 trial, agg_results, devVars>>

NextAgg == Aggregate

SpecAgg == InitAgg /\ [][NextAgg]_vars


(***************************************************************************)
(* House building (house_building.py).  Probabilities, expected values and *)
(* ev_per_dollar are exact rationals in lowest terms.                      *)
(***************************************************************************)
\* the order in which MonopolyBoard.__init__ inserts the colors
ColorOrder == <<"Brown", "Light Blue", "Pink", "Orange", "Red", "Yellow",
                "Green", "Dark Blue">>

RatMul(a, b) == Rat(a.num * b.num, a.den * b.den)

\* a < b, for denominators > 0
RatLess(a, b) ==
  LET gn == GCD(Abs(a.num), Abs(b.num))
      g1 == IF gn = 0 THEN 1 ELSE gn
      g2 == GCD(a.den, b.den)
  IN (a.num \div g1) * (b.den \div g2) < (b.num \div g1) * (a.den \div g2)

SeqMin(xs) == CHOOSE x \in Range(xs) : \A y \in Range(xs) : x <= y
SeqMax(xs) == CHOOSE x \in Range(xs) : \A y \in Range(xs) : x >= y

\* _get_player_monopolies: the colors whose positions the player all owns
get_player_monopolies(pl, hp, i) ==
  SelectSeq(ColorOrder,
            LAMBDA c : \A k \in DOMAIN color_groups[c] :
                          owns_property(pl, hp, i, color_groups[c][k]))

\* _calculate_landing_probabilities: the weight of a position in hundredths
\* of base_prob, and the normalised probability
landing_weight(pos) ==
  IF 16 <= pos /\ pos <= 19 THEN 125
  ELSE IF 21 <= pos /\ pos <= 24 THEN 110
  ELSE IF pos \in {5, 15, 25, 35} THEN 105
  ELSE IF pos = 30 THEN 0
  ELSE IF pos = 10 THEN 150
  ELSE 100

\* the table without the normalisation step
calculate_landing_probabilities_raw ==
  [pos \in Positions |-> Rat(landing_weight(pos), 100 * BoardSize)]

calculate_landing_probabilities ==
  [pos \in Positions |->
     Rat(landing_weight(pos),
         SumTo([q \in Positions |-> landing_weight(q)], 0, BoardSize - 1))]

\* self.landing_probs.get(property_pos, 1.0/40)
landing_probs(pos) ==
  IF pos \in DOMAIN engine_landing_probs
  THEN engine_landing_probs[pos]
  ELSE Rat(1, BoardSize)

\* _generate_development_options, one color group: a build on every position
\* at the group's minimum, unless the group is at hotel level
group_options_any_position(p, c) ==
  LET positions == color_groups[c]
      current_houses == [k \in DOMAIN positions |-> HousesGet(p.houses, positions[k])]
      min_houses == SeqMin(current_houses)
      properties_to_build ==
        SelectSeq(positions, LAMBDA pos : HousesGet(p.houses, pos) < HotelLevel)
  IN IF min_houses >= HotelLevel THEN <<>>
     ELSE [k \in 1 .. Len(properties_to_build) |->
             LET pos == properties_to_build[k]
                 old_rent == get_rent(pos, TRUE, min_houses)
                 new_rent == get_rent(pos, TRUE, min_houses + 1)
             IN [property_positions |-> <<pos>>,
                 property_name |-> property_name(pos),
                 color_group |-> c,
                 current_houses |-> min_houses,
                 new_houses |-> min_houses + 1,
                 cost |-> house_cost(pos),
                 rent_increase |-> new_rent - old_rent,
                 expected_value |-> Rat(0, 1),
                 ev_per_dollar |-> Rat(0, 1),
                 is_hotel |-> ~(min_houses < 4),
                 description |-> <<IF min_houses < 4 THEN "house" ELSE "hotel",
                                   property_name(pos), new_rent>>]]

group_options(p, c) ==
  LET positions == color_groups[c]
      current_houses == [k \in DOMAIN positions |-> HousesGet(p.houses, positions[k])]
      min_houses == SeqMin(current_houses)
      properties_to_build ==
        SelectSeq(positions, LAMBDA pos : HousesGet(p.houses, pos) = min_houses)
  IN IF min_houses >= HotelLevel THEN <<>>
     ELSE [k \in 1 .. Len(properties_to_build) |->
             LET pos == properties_to_build[k]
                 old_rent == get_rent(pos, TRUE, min_houses)
                 new_rent == get_rent(pos, TRUE, min_houses + 1)
             IN [property_positions |-> <<pos>>,
                 property_name |-> property_name(pos),
                 color_group |-> c,
                 current_houses |-> min_houses,
                 new_houses |-> min_houses + 1,
                 cost |-> house_cost(pos),
                 rent_increase |-> new_rent - old_rent,
                 expected_value |-> Rat(0, 1),
                 ev_per_dollar |-> Rat(0, 1),
                 is_hotel |-> ~(min_houses < 4),
                 description |-> <<IF min_houses < 4 THEN "house" ELSE "hotel",
                                   property_name(pos), new_rent>>]]

RECURSIVE generate_development_options(_, _)
generate_development_options(p, monopolies) ==
  IF monopolies = <<>> THEN <<>>
  ELSE group_options(p, Head(monopolies))
         \o generate_development_options(p, Tail(monopolies))

\* _calculate_expected_value
calculate_expected_value(option, remaining_turns, num_opponents) ==
  RatMul(Rat(option.rent_increase * remaining_turns * num_opponents, 1),
         landing_probs(option.property_positions[1]))

\* lines 70-76: expected_value and ev_per_dollar of one option
with_expected_value(option, remaining_turns, num_opponents) ==
  LET ev == calculate_expected_value(option, remaining_turns, num_opponents)
  IN [option EXCEPT
        !.expected_value = ev,
        !.ev_per_dollar = IF option.cost > 0
                            THEN Rat(ev.num, ev.den * option.cost)
                            ELSE Rat(0, 1)]

\* _apply_strategic_preferences: the multiplier of one option (risk_tolerance
\* is in hundredths)
multiplier(option, p) ==
  LET m1 == IF option.is_hotel THEN Rat(13, 10) ELSE Rat(1, 1)
      m2 == IF option.color_group = "Orange" THEN Rat(12, 10)
            ELSE IF option.color_group \in {"Red", "Yellow"} THEN Rat(11, 10)
            ELSE Rat(1, 1)
      m3 == IF option.current_houses = 0 THEN Rat(115, 100) ELSE Rat(1, 1)
      m4 == IF p.risk_tolerance > 70
              THEN IF option.cost > 150 THEN Rat(11, 10) ELSE Rat(1, 1)
            ELSE IF p.risk_tolerance < 40
              THEN IF option.cost < 100 THEN Rat(11, 10) ELSE Rat(1, 1)
            ELSE Rat(1, 1)
  IN RatMul(RatMul(m1, m2), RatMul(m3, m4))

\* the preferences multiplying the expected value too
apply_strategic_preferences_to_value(options, p) ==
  [k \in DOMAIN options |->
     [options[k] EXCEPT
        !.expected_value = RatMul(options[k].expected_value,
                                  multiplier(options[k], p)),
        !.ev_per_dollar = RatMul(options[k].ev_per_dollar,
                                 multiplier(options[k], p))]]

apply_strategic_preferences(options, p) ==
  [k \in DOMAIN options |->
     [options[k] EXCEPT
        !.ev_per_dollar = RatMul(options[k].ev_per_dollar,
                                 multiplier(options[k], p))]]

\* sorted(options, key=ev_per_dollar, reverse=True): descending and stable
RECURSIVE InsertByEv(_, _)
InsertByEv(x, sorted) ==
  IF sorted = <<>> THEN <<x>>
  ELSE IF RatLess(x.ev_per_dollar, Head(sorted).ev_per_dollar)
    THEN <<Head(sorted)>> \o InsertByEv(x, Tail(sorted))
  ELSE <<x>> \o sorted

RECURSIVE sorted_options(_)
sorted_options(options) ==
  IF options = <<>> THEN <<>>
  ELSE InsertByEv(Head(options), sorted_options(Tail(options)))

\* the loop without the budget test
RECURSIVE greedy_loop_any_cost(_, _, _, _, _)
greedy_loop_any_cost(srt, k, selected, spent, available_cash) ==
  IF k > Len(srt) THEN selected
  ELSE
    LET option == srt[k]
        conflict == \E n \in DOMAIN selected :
                      option.property_positions[1]
                        \in Range(selected[n].property_positions)
    IN IF conflict
         THEN greedy_loop_any_cost(srt, k + 1, selected, spent, available_cash)
       ELSE IF 100 * (spent + option.cost) >= 95 * available_cash
         THEN Append(selected, option)
       ELSE greedy_loop_any_cost(srt, k + 1, Append(selected, option),
                                 spent + option.cost, available_cash)

\* the loop of _greedy_selection from option k on
RECURSIVE greedy_loop(_, _, _, _, _)
greedy_loop(srt, k, selected, spent, available_cash) ==
  IF k > Len(srt) THEN selected
  ELSE
    LET option == srt[k]
        conflict == \E n \in DOMAIN selected :
                      option.property_positions[1]
                        \in Range(selected[n].property_positions)
    IN IF spent + option.cost > available_cash
         THEN greedy_loop(srt, k + 1, selected, spent, available_cash)
       ELSE IF conflict
         THEN greedy_loop(srt, k + 1, selected, spent, available_cash)
       ELSE IF 100 * (spent + option.cost) >= 95 * available_cash
         THEN Append(selected, option)
       ELSE greedy_loop(srt, k + 1, Append(selected, option),
                        spent + option.cost, available_cash)

\* _greedy_selection
greedy_selection(options, available_cash) ==
  greedy_loop(sorted_options(options), 1, <<>>, 0, available_cash)

\* line 67
num_opponents(pl, hp, i) ==
  Cardinality({j \in DOMAIN pl : ~pl[j].is_bankrupt /\ ~PlayerEq(pl, hp, j, i)})

\* lines 49-80: the list decide_development returns
selected_options(pl, hp, i, estimated_remaining_turns) ==
  LET monopolies == get_player_monopolies(pl, hp, i)
      available_cash == pl[i].cash - pl[i].min_cash_reserve
      options == generate_development_options(pl[i], monopolies)
      valued == [k \in DOMAIN options |->
                   with_expected_value(options[k], estimated_remaining_turns,
                                       num_opponents(pl, hp, i))]
  IN IF monopolies = <<>> THEN <<>>
     ELSE IF available_cash < MinimumHouseCost THEN <<>>
     ELSE IF options = <<>> THEN <<>>
     ELSE greedy_selection(apply_strategic_preferences(valued, pl[i]),
                           available_cash)

\* one house more on every selected position, its cost off the cash
RECURSIVE builds_applied(_, _)
builds_applied(p, selected) ==
  IF selected = <<>> THEN p
  ELSE LET pos == Head(selected).property_positions[1]
           q == [p EXCEPT !.cash = p.cash - Head(selected).cost,
                          !.houses = SetHouses(p.houses, pos,
                                               HousesGet(p.houses, pos) + 1)]
       IN builds_applied(q, Tail(selected))

decide_development_and_build(pl, hp, i, estimated_remaining_turns) ==
  LET selected == selected_options(pl, hp, i, estimated_remaining_turns)
  IN [selected |-> selected,
      players |-> [pl EXCEPT ![i] = builds_applied(pl[i], selected)],
      heap |-> hp,
      landing_probs |-> engine_landing_probs]

\* decide_development: the returned list, and the players, the lists and the
\* engine's table as the call leaves them
decide_development(pl, hp, i, estimated_remaining_turns) ==
  [selected |-> selected_options(pl, hp, i, estimated_remaining_turns),
   players |-> pl,
   heap |-> hp,
   landing_probs |-> engine_landing_probs]

\* a player holding the Red group, an opponent holding the Brown group
ScenarioRedBrown ==
  [configs |-> <<Cfg("You", 350, 20, <<21, 23, 24>>, 60),
                 Cfg("Opponent", 250, 10, <<1, 3>>, 30)>>,
   target_player_idx |-> 0, target_property_position |-> 21]

\* a player holding the Dark Blue group, an opponent holding the Orange group
ScenarioBlueOrange ==
  [configs |-> <<Cfg("You", 600, 20, <<37, 39>>, 80),
                 Cfg("Opponent", 300, 10, <<16, 18, 19>>, 50)>>,
   target_player_idx |-> 0, target_property_position |-> 39]

\* the opponent holds two of the three Orange positions: no monopoly
ScenarioNoMonopoly ==
  [configs |-> <<Cfg("You", 400, 20, <<6, 8, 9>>, 30),
                 Cfg("Opponent", 300, 10, <<16, 18>>, 50)>>,
   target_player_idx |-> 0, target_property_position |-> 9]

DevScenarios == {ScenarioRedBrown, ScenarioBlueOrange, ScenarioNoMonopoly}

\* the game create_game builds, as in the module's own test of the engine
InitDev ==
  /\ \E sc \in DevScenarios :
       /\ player_configs = ConfigsOf(sc)
       /\ heap = create_game_heap(ConfigsOf(sc), HeapOf(sc))
       /\ players = create_game_players(ConfigsOf(sc), HeapOf(sc))
       /\ target_player_idx = sc.target_player_idx
       /\ target_property_position = sc.target_property_position
  /\ max_turns = MaxTurns
  /\ enable_house_building = TRUE
  /\ current_turn = 0
  /\ current_player_idx = 0
  /\ total_turns = 0
  /\ mechanics = "none"
  /\ turn = 0
  /\ tracker = NewTracker
  /\ rent_by_turn = <<>>
  /\ cumulative_rent = 0
  /\ result = NoResult
  /\ trial = 1
  /\ InitOther
  /\ engine_landing_probs = calculate_landing_probabilities
  /\ pc = "decide"

\* builder.decide_development(player, game, remaining_turns)
DecideDevelopment ==
  /\ pc = "decide"
  /\ \E i \in DOMAIN players :
       LET r == decide_development(players, heap, i, DefaultRemainingTurns)
       IN /\ dev_selected' = r.selected
          /\ dev_player' = i
          /\ players' = r.players
          /\ heap' = r.heap
          /\ engine_landing_probs' = r.landing_probs
  /\ pc' = "apply"
  /\ UNCHANGED <<inputVars, mechVars, current_turn, current_player_idx, total_turns,
                 mechanics, trackVars, result, trial, aggVars>>

\* the caller applies the selected builds: cost deducted, house counts
\* incremented
ApplyBuilds ==
  /\ pc = "apply"
  /\ players' = [players EXCEPT
                   ![dev_player] = builds_applied(players[dev_player],
                                                  dev_selected)]
  /\ dev_selected' = <<>>
  /\ pc' = "decide"
  /\ UNCHANGED <<inputVars, mechVars, engineVars, heap, current_turn, current_player_idx,
                 total_turns, mechanics, trackVars, result, trial, aggVars,
                 dev_player>>

\* Player.receive between two calls (the salary of passing Go)
ReceiveCash ==
  /\ pc = "decide"
  /\ \E i \in DOMAIN players :
       /\ players[i].cash + GoBonus <= MaxCash
       /\ players' = [players EXCEPT ![i] = receive(players[i], GoBonus)]
  /\ UNCHANGED <<inputVars, mechVars, engineVars, heap, current_turn, current_player_idx,
                 total_turns, mechanics, trackVars, result, trial, aggVars,
                 devVars, pc>>

NextDev ==
  \/ DecideDevelopment
  \/ ApplyBuilds
  \/ ReceiveCash

SpecDev == InitDev /\ [][NextDev]_vars


(***************************************************************************)
(* The mechanics engine on its own: a game built by create_game, a         *)
(* mechanics object built as GameMechanics(game), and take_turn called     *)
(* again and again for one player (the other players stand still and own   *)
(* what the configuration gave them).                                      *)
(***************************************************************************)
\* where the moving player starts and with how much cash, and what the
\* standing player owns: one to four railroads, one or two utilities, a
\* street without and with its color group
TurnStarts ==
  {<<0, 100, <<5, 15, 25, 35>>>>,
   <<20, 300, <<5, 25, 12, 28, 1, 3>>>>,
   <<33, 100, <<5, 25, 35>>>>,
   <<33, 300, <<5, 28, 6>>>>}

TurnScenario(start, owned) ==
  [configs |-> <<Cfg("Mover", start[2], start[1], <<>>, 50),
                 Cfg("Owner", 500, 10, owned, 50)>>,
   target_player_idx |-> 0, target_property_position |-> 6]

InitTurn ==
  /\ \E start \in TurnStarts :
       LET sc == TurnScenario(start, start[3])
       IN /\ player_configs = ConfigsOf(sc)
          /\ heap = create_game_heap(ConfigsOf(sc), HeapOf(sc))
          /\ players = create_game_players(ConfigsOf(sc), HeapOf(sc))
          /\ target_player_idx = sc.target_player_idx
          /\ target_property_position = sc.target_property_position
  /\ max_turns = MaxTurnSteps
  /\ enable_house_building = FALSE
  /\ current_turn = 0
  /\ current_player_idx = 0
  /\ total_turns = 0
  /\ mechanics = "built"
  /\ turn = 0
  /\ tracker = NewTracker
  /\ rent_by_turn = <<>>
  /\ cumulative_rent = 0
  /\ result = NoResult
  /\ trial = 1
  /\ InitOther
  /\ engine_landing_probs = <<>>
  /\ pc = "turn"

\* events = mechanics.take_turn(player, strategy_func)
TakeTurn ==
  /\ pc = "turn"
  /\ turn < MaxTurnSteps
  /\ \E die1 \in 1 .. 6, die2 \in 1 .. 6 :
       /\ die1 <= die2
       /\ LET i == current_player_idx + 1
              r == take_turn(players, heap, i, die1, die2,
                             get_strategy(players[i].risk_tolerance),
                             i - 1 = target_player_idx,
                             target_property_position)
          IN /\ players' = r.players
             /\ heap' = r.heap
             /\ events' = r.events
             /\ mover' = i
  /\ turn' = turn + 1
  /\ UNCHANGED <<inputVars, engineVars, current_turn, current_player_idx, total_turns,
                 mechanics, tracker, rent_by_turn, cumulative_rent, result,
                 trial, pc, aggVars, devVars>>

NextTurn == TakeTurn

SpecTurn == InitTurn /\ [][NextTurn]_vars


(***************************************************************************)
(* Claims.                                                                 *)
(***************************************************************************)

\* C1: every trial ends by returning a result whose turns_played is at most
\* max_turns, and it ends before max_turns turns only when at most one
\* non-bankrupt player remains.  (Stated for run_single_simulation as
\* run_monte_carlo calls it.)
C1_TrialReturnsResult ==
  /\ pc # "raised"
  /\ (result # NoResult =>
        /\ result.turns_played <= max_turns
        /\ (result.turns_played < max_turns => is_game_over(players)))

\* The turn loop on its own (lines 84-136), over a mechanics object that was
\* built: at most max_turns iterations, and the result respects the cap.
TurnLoopCapped ==
  /\ pc = "loop" => (turn <= max_turns /\ Len(rent_by_turn) = turn)
  /\ (result # NoResult =>
        /\ result.turns_played <= max_turns
        /\ (result.turns_played < max_turns => is_game_over(players)))


\* C2: bankruptcy is terminal.  Within a trial a set is_bankrupt flag is never
\* cleared, and a take_turn call for a bankrupt player returns no events and
\* changes nothing (no roll, move, payment or purchase): the iteration of the
\* loop only advances the rotation.  The other players keep taking turns.
C2_BankruptTurnIsNoOp ==
  pc = "loop" =>
    \A i \in DOMAIN players :
      players[i].is_bankrupt =>
        \A die1 \in 1 .. 6, die2 \in 1 .. 6 :
          LET r == take_turn(players, heap, i, die1, die2,
                             get_strategy(players[i].risk_tolerance),
                             i - 1 = target_player_idx, target_property_position)
          IN r.events = <<>> /\ r.players = players /\ r.heap = heap

\* C2: bankruptcy is terminal: the no-op above holds in every state, and no
\* iteration of the loop clears a flag; a bankrupt player's iteration changes
\* only the rotation and the turn counter.
C2_BankruptcyTerminal ==
  /\ []C2_BankruptTurnIsNoOp
  /\ [][(pc = "loop" /\ pc' = "loop") =>
          /\ \A i \in DOMAIN players :
               players[i].is_bankrupt => players'[i].is_bankrupt
          /\ (players[current_player_idx + 1].is_bankrupt =>
                /\ players' = players
                /\ heap' = heap
                /\ tracker' = tracker
                /\ cumulative_rent' = cumulative_rent
                /\ turn' = turn + 1)]_vars

\* the first player of the three went bankrupt on its first turn (cash 50,
\* Luxury Tax), the two others played, and its second turn has passed
C2_Witness ==
  /\ pc = "loop"
  /\ Len(players) = 3
  /\ players[1].is_bankrupt
  /\ players[1].cash = 50 - LuxuryTaxAmount
  /\ turn = 4
  /\ ~is_game_over(players)

\* C7: trials are independent.  No step of a trial changes player_configs or
\* a config's owned_properties list, and every trial starts from the game
\* create_game builds from the configurations as they were given: the
\* players' lists are copies, equal to the configured ones, and the counters
\* are zero.
C7_TrialsIndependent ==
  \E sc \in Scenarios :
    /\ player_configs = ConfigsOf(sc)
    /\ \A r \in 1 .. Len(sc.configs) : heap[r] = sc.configs[r].owned
    /\ pc = "construct" =>
         /\ players = create_game_players(ConfigsOf(sc), HeapOf(sc))
         /\ \A i \in DOMAIN players :
              /\ Owned(players, heap, i) = sc.configs[i].owned
              /\ \A j \in DOMAIN player_configs :
                   players[i].owned_ref # player_configs[j].owned_ref
         /\ current_turn = 0
         /\ current_player_idx = 0
         /\ total_turns = 0

\* the second trial starts after a first trial in which the tracked property
\* was bought (a list was appended to)
C7_Witness ==
  /\ pc = "construct"
  /\ trial = 2
  /\ tracker.was_purchased

\* C3: the break-even turn of a trial is the smallest turn t strictly greater
\* than the purchase turn whose cumulative-net entry is >= 0, and it is -1 when
\* the property was never purchased or no such turn exists in the trial; the
\* series -300, -280, -240, -180, -100, 0 bought on turn 0 gives 5.
C3_BreakEvenTurn ==
  pc = "done" =>
    LET after == {t \in 0 .. Len(rent_by_turn) - 1 :
                    t > tracker.purchase_turn /\ rent_by_turn[t + 1] >= 0}
    IN /\ result.break_even_turn =
            IF tracker.was_purchased /\ after # {}
              THEN CHOOSE t \in after : \A u \in after : t <= u
              ELSE -1
       /\ (rent_by_turn = ScenarioSeries /\ tracker.purchase_turn = 0
             => result.break_even_turn = 5)

\* the scenario's series has been scanned: its first entry >= 0 after the
\* purchase turn is the 0 of turn 5
C3_Witness ==
  /\ pc = "done"
  /\ rent_by_turn = ScenarioSeries
  /\ tracker.purchase_turn = 0
  /\ result.break_even_turn = 5

\* C4: aggregating a batch in which no trial purchased the tracked property,
\* the empty batch included, returns without raising the never-purchased
\* aggregate: its purchase_rate is 0, it carries the error marker that no
\* normal aggregate carries, and it holds no statistic.
C4_NeverPurchased ==
  pc = "done" =>
    IF \A k \in DOMAIN agg_results : ~agg_results[k].property_purchased
      THEN /\ DOMAIN agg_out = {"property_name", "property_price",
                                "purchase_rate", "error"}
           /\ agg_out.purchase_rate = Rat(0, 1)
           /\ agg_out.property_price = purchase_price(target_property_position)
      ELSE /\ "error" \notin DOMAIN agg_out
           /\ agg_out.purchase_rate # Rat(0, 1)

\* a batch of two trials, neither of which purchased, has been aggregated
C4_Witness ==
  /\ pc = "done"
  /\ Len(agg_results) = 2
  /\ \A k \in DOMAIN agg_results : ~agg_results[k].property_purchased
  /\ "error" \in DOMAIN agg_out

\* the empty batch has been aggregated
EmptyBatchAggregated ==
  pc = "done" /\ agg_results = <<>> /\ "error" \in DOMAIN agg_out

ListOrders(n) ==
  {p \in [1 .. n -> 1 .. n] : \A i, j \in 1 .. n : p[i] = p[j] => i = j}

Permuted(xs, p) == [k \in 1 .. Len(xs) |-> xs[p[k]]]

\* C5: aggregation is invariant under reordering the trial list: every
\* permutation of the aggregated list gives the same aggregate.
C5_OrderInvariant ==
  pc = "done" =>
    \A p \in ListOrders(Len(agg_results)) :
      aggregate_results(Permuted(agg_results, p), target_property_position)
        = agg_out

\* every field but break_even_distribution is the same for every permutation
OrderInvariantButDistribution ==
  pc = "done" =>
    \A p \in ListOrders(Len(agg_results)) :
      LET other == aggregate_results(Permuted(agg_results, p),
                                     target_property_position)
      IN /\ DOMAIN other = DOMAIN agg_out
         /\ \A f \in DOMAIN agg_out \ {"break_even_distribution"} :
              other[f] = agg_out[f]

\* the house counts of player i on the positions of color c
GroupHouses(i, c) ==
  [k \in DOMAIN color_groups[c] |->
     HousesGet(players[i].houses, color_groups[c][k])]

\* C8: even building.  From evenly built monopolies, after any sequence of
\* optimizer calls whose selected builds are each applied, every color group
\* a player fully owns has max(houses) - min(houses) <= 1 and no position
\* has more than 5 houses.
C8_EvenBuilding ==
  \A i \in DOMAIN players :
    /\ \A pos \in DOMAIN players[i].houses : players[i].houses[pos] <= HotelLevel
    /\ \A c \in Colors :
         (\A k \in DOMAIN color_groups[c] :
            owns_property(players, heap, i, color_groups[c][k]))
           => SeqMax(GroupHouses(i, c)) - SeqMin(GroupHouses(i, c)) <= 1

\* builds were applied up to a hotel: a group stands at 5 and 4 houses
C8_Witness ==
  /\ pc = "decide"
  /\ \E i \in DOMAIN players :
       \E k \in DOMAIN get_player_monopolies(players, heap, i) :
         LET c == get_player_monopolies(players, heap, i)[k]
         IN /\ SeqMax(GroupHouses(i, c)) = HotelLevel
            /\ SeqMin(GroupHouses(i, c)) = HotelLevel - 1

\* the cost of the selected builds
TotalCost(selected) ==
  SeqSum([k \in DOMAIN selected |-> selected[k].cost])

\* C9: the builds selected in one optimizer call never cost more than 95% of
\* the available budget (cash minus reserve); with cash 500, reserve 200 and
\* two eligible 150-cost builds only one build is selected.
C9_SafetyBuffer ==
  pc = "apply" =>
    LET p == players[dev_player]
        budget == p.cash - p.min_cash_reserve
        eligible == generate_development_options(
                      p, get_player_monopolies(players, heap, dev_player))
    IN /\ 100 * TotalCost(dev_selected) <= 95 * budget
       /\ (/\ p.cash = 500
           /\ p.min_cash_reserve = 200
           /\ Len(eligible) = 2
           /\ \A k \in DOMAIN eligible : eligible[k].cost = 150)
            => Len(dev_selected) = 1

\* the boundary scenario itself: budget 300, two eligible 150-cost builds,
\* one build selected
C9_BoundaryOneBuild ==
  pc = "apply" =>
    LET p == players[dev_player]
        eligible == generate_development_options(
                      p, get_player_monopolies(players, heap, dev_player))
    IN (/\ p.cash = 500
        /\ p.min_cash_reserve = 200
        /\ Len(eligible) = 2
        /\ \A k \in DOMAIN eligible : eligible[k].cost = 150)
         => Len(dev_selected) = 1

\* C10: decide_development has no side effects: across the call the cash, the
\* owned lists and the house counts of the player and the whole state of
\* every other player and of the game are unchanged; only the returned list
\* is produced.
C10_DecideHasNoEffect ==
  [][(pc = "decide" /\ pc' = "apply") =>
       /\ players' = players
       /\ heap' = heap
       /\ current_turn' = current_turn
       /\ current_player_idx' = current_player_idx
       /\ total_turns' = total_turns
       /\ player_configs' = player_configs]_vars

\* a call has returned two builds, nothing applied yet
C10_Witness ==
  /\ pc = "apply"
  /\ Len(dev_selected) = 2
  /\ \A pos \in DOMAIN players[dev_player].houses :
       players[dev_player].houses[pos] = 0

\* C11: in a trial run with house building enabled the optimizer is invoked
\* for each player after that player's own turn, before the next player's
\* turn, and its selected builds are applied; with house building disabled no
\* house count ever changes.  As a state property of the trial: the trial
\* does not end in an error, after an iteration of an enabled trial the
\* optimizer's last call was for the player who just moved, and in a
\* disabled trial every house count is 0.
C11_BuildsAfterOwnTurn ==
  /\ pc # "raised"
  /\ (pc = "loop" /\ turn > 0 /\ enable_house_building) =>
       dev_player = ((current_player_idx + Len(players) - 1) % Len(players)) + 1
  /\ ~enable_house_building =>
       \A i \in DOMAIN players :
         \A pos \in DOMAIN players[i].houses : players[i].houses[pos] = 0

\* the landing event of the last take_turn call (a record with event "none"
\* when the call produced none)
LandingEvent ==
  LET idx == {k \in DOMAIN events : events[k].event = "landing"}
  IN IF idx = {} THEN Ev("none", 0, "none", 0, FALSE)
     ELSE events[CHOOSE k \in idx : TRUE]

\* how many of the listed positions player o owns
OwnedCount(o, positions) ==
  Cardinality({k \in DOMAIN positions :
                 owns_property(players, heap, o, positions[k])})

\* C12: railroad rent depends only on how many of the four railroads the
\* owner holds: 25, 50, 100, 200 for 1, 2, 3, 4; both for calculate_rent on
\* every owned railroad and for the rent a lander was charged.
C12_RailroadRent ==
  pc = "turn" =>
    /\ \A k \in DOMAIN railroad_positions :
         LET pos == railroad_positions[k]
             o == get_property_owner(players, heap, pos)
         IN o # NoOwner =>
              /\ OwnedCount(o, railroad_positions) \in 1 .. 4
              /\ calculate_rent(players, heap, pos, o)
                   = <<25, 50, 100, 200>>[OwnedCount(o, railroad_positions)]
    /\ (LandingEvent.action = "pay_rent"
          /\ LandingEvent.position \in Range(railroad_positions)) =>
         LandingEvent.amount =
           0 - <<25, 50, 100, 200>>[
                 OwnedCount(get_property_owner(players, heap,
                                               LandingEvent.position),
                            railroad_positions)]

\* the mover was charged 100 on a railroad of an owner of three
C12_Witness ==
  /\ pc = "turn"
  /\ LandingEvent.action = "pay_rent"
  /\ LandingEvent.position = 35
  /\ LandingEvent.amount = -100
  /\ OwnedCount(2, railroad_positions) = 3

\* rent was charged on a railroad for each number of railroads owned
RailroadRentCharged(k) ==
  /\ LandingEvent.action = "pay_rent"
  /\ LandingEvent.position \in Range(railroad_positions)
  /\ OwnedCount(get_property_owner(players, heap, LandingEvent.position),
                railroad_positions) = k

\* C13: utility rent is 70 when the owner holds both utilities and 28 when
\* the owner holds exactly one, whatever the dice showed.
C13_UtilityRent ==
  pc = "turn" =>
    /\ \A k \in DOMAIN utility_positions :
         LET pos == utility_positions[k]
             o == get_property_owner(players, heap, pos)
         IN o # NoOwner =>
              calculate_rent(players, heap, pos, o)
                = IF OwnedCount(o, utility_positions) = 2 THEN 70 ELSE 28
    /\ (LandingEvent.action = "pay_rent"
          /\ LandingEvent.position \in Range(utility_positions)) =>
         LandingEvent.amount =
           IF OwnedCount(get_property_owner(players, heap,
                                            LandingEvent.position),
                         utility_positions) = 2
             THEN -70 ELSE -28

\* the mover was charged 70 on a utility of an owner of both
C13_Witness ==
  /\ pc = "turn"
  /\ LandingEvent.action = "pay_rent"
  /\ LandingEvent.position = 28
  /\ LandingEvent.amount = -70
  /\ OwnedCount(2, utility_positions) = 2

\* the mover was charged 28 on the utility of an owner of one
UtilityRentOfOne ==
  /\ LandingEvent.action = "pay_rent"
  /\ LandingEvent.position \in Range(utility_positions)
  /\ LandingEvent.amount = -28

RECURSIVE RatSumTo(_, _, _)
RatSumTo(f, lo, hi) ==
  IF lo > hi THEN Rat(0, 1)
  ELSE IF lo = hi THEN f[lo]
  ELSE LET mid == (lo + hi) \div 2
           a == RatSumTo(f, lo, mid)
           b == RatSumTo(f, mid + 1, hi)
       IN Rat(a.num * b.den + b.num * a.den, a.den * b.den)

\* C14: the engine's landing-probability table has the 40 board positions
\* as its entries, the entries sum to 1, the entry of position 30 is exactly
\* 0, and after any sequence of optimizer calls the table is still the one
\* built at construction.
C14_LandingTable ==
  pc \in {"decide", "apply"} =>
    /\ DOMAIN engine_landing_probs = Positions
    /\ Cardinality(DOMAIN engine_landing_probs) = 40
    /\ RatSumTo(engine_landing_probs, 0, BoardSize - 1) = Rat(1, 1)
    /\ engine_landing_probs[GoToJailPosition] = Rat(0, 1)
    /\ engine_landing_probs = calculate_landing_probabilities

\* an optimizer call has returned builds and the table is in use
C14_Witness ==
  /\ pc = "apply"
  /\ Len(dev_selected) > 0
  /\ engine_landing_probs[16] = Rat(25, 822)

\* the target position is not on the board or the target index is not an
\* index of the player list
ConfigurationError ==
  \/ target_property_position \notin Positions
  \/ target_player_idx \notin 0 .. (Len(player_configs) - 1)

C16_HousesMatchOwned ==
  \A i \in DOMAIN players :
    /\ DOMAIN players[i].houses = Range(heap[players[i].owned_ref])
    /\ \A pos \in DOMAIN players[i].houses :
         players[i].houses[pos] \in 0 .. HotelLevel

\* a player of a running trial has bought a position its configuration does
\* not hold
C16_Witness ==
  /\ pc = "loop"
  /\ turn > 0
  /\ \E i \in DOMAIN players :
       \E pos \in DOMAIN players[i].houses :
         /\ pos \notin Range(heap[player_configs[i].owned_ref])
         /\ pos \in Range(heap[players[i].owned_ref])
         /\ players[i].houses[pos] = 0

\* the first event named e of a turn's event list
EventOf(evs, e) ==
  LET idx == {k \in DOMAIN evs : evs[k].event = e}
  IN IF idx = {} THEN Ev("none", 0, "none", 0, FALSE)
     ELSE evs[CHOOSE k \in idx : \A j \in idx : k <= j]

\* the player whose turns are taken
Mover == current_player_idx + 1

\* a jailed player stands on position 10 with a counter below 3
JailedBelowTerm ==
  \A i \in DOMAIN players :
    players[i].in_jail =>
      /\ players[i].position = JailPosition
      /\ players[i].jail_turns \in 0 .. (JailTerm - 1)
      /\ ~players[i].is_bankrupt

\* a turn that lands on position 30: relocated to 10, jailed, no cash moved
SentToJail ==
  LET old == players[Mover]
      new == players'[Mover]
      roll == EventOf(events', "roll")
  IN (roll.event = "roll" /\
      (old.position + roll.amount) % BoardSize = GoToJailPosition) =>
       /\ new.position = JailPosition
       /\ new.in_jail
       /\ new.jail_turns = 0
       /\ new.cash = old.cash
       /\ EventOf(events', "landing").action = "go_to_jail"
       /\ EventOf(events', "landing").amount = 0
       /\ \A j \in DOMAIN players : j # Mover => players'[j] = players[j]
       /\ heap' = heap

\* a turn of a jailed player: no roll, no move, the counter incremented, and
\* the release when the counter reaches 3
JailTurn ==
  LET old == players[Mover]
      new == players'[Mover]
  IN old.in_jail =>
       /\ events' = <<Ev("in_jail", 0, "none", 0, FALSE)>>
       /\ new.position = old.position
       /\ new.cash = old.cash
       /\ IF old.jail_turns + 1 = JailTerm
            THEN ~new.in_jail /\ new.jail_turns = 0
            ELSE new.in_jail /\ new.jail_turns = old.jail_turns + 1
       /\ \A j \in DOMAIN players : j # Mover => players'[j] = players[j]
       /\ heap' = heap

\* a turn of a player who is neither jailed nor bankrupt starts with a roll
FreeTurnRolls ==
  LET old == players[Mover]
  IN (~old.in_jail /\ ~old.is_bankrupt) =>
       /\ Len(events') >= 2
       /\ events'[1].event = "roll"
       /\ events'[1].amount \in 2 .. 12

\* C17: a player landing on position 30 is moved to position 10 and jailed
\* with no cash charged; each of the next 3 turns increments the jail counter
\* without a roll or a move, the third of them releases the player with the
\* counter reset to 0, and the turn after it rolls.
C17_JailTerm ==
  /\ [][turn' = turn + 1 => (SentToJail /\ JailTurn /\ FreeTurnRolls)]_vars
  /\ [](pc = "turn" => JailedBelowTerm)

\* the third jail turn has just released a player who was sent to jail from
\* position 20 on the first turn
C17_Witness ==
  /\ pc = "turn"
  /\ turn = 4
  /\ events = <<Ev("in_jail", 0, "none", 0, FALSE)>>
  /\ players[Mover].position = JailPosition
  /\ ~players[Mover].in_jail
  /\ players[Mover].jail_turns = 0
  /\ player_configs[Mover].position = 20

\* the released player has rolled on the turn after the release
ReleasedPlayerRolls ==
  /\ pc = "turn"
  /\ turn = 5
  /\ player_configs[Mover].position = 20
  /\ player_configs[Mover].cash = 300
  /\ events[1].event = "roll"
  /\ players[Mover].position = JailPosition + events[1].amount

\* move_player on the mover (as the first two turns leave it) placed at p
\* with dice sum s: position
\* (p + s) mod 40, cash + 200 exactly when the new position is below p,
\* nothing else changed
MoveIsModular(p, s) ==
  LET old == [players[Mover] EXCEPT !.position = p]
      r == move_player(old, s)
      new == r.player
  IN /\ new.position = (p + s) % BoardSize
     /\ (new.cash = old.cash + GoBonus) <=> (new.position < p)
     /\ new.cash \in {old.cash, old.cash + GoBonus}
     /\ r.passed_go <=> (new.position < p)
     /\ [new EXCEPT !.position = p, !.cash = old.cash] = old

\* a rolled turn resolves the landing on the cash the move left: the final
\* cash is the moved cash plus the landing amount paid and the price of a
\* purchase, the bankrupt flag is judged on the moved cash, and the
\* passed_go event precedes the landing event
BonusBeforeLanding ==
  LET old == players[Mover]
      new == players'[Mover]
      roll == EventOf(events', "roll")
      moved == move_player(old, roll.amount).player
      landing == EventOf(events', "landing")
      purchase == EventOf(events', "purchase")
      charged == IF landing.action \in {"pay_rent", "pay_tax"}
                   THEN landing.amount ELSE 0
  IN roll.event = "roll" =>
       /\ new.cash = moved.cash + charged + purchase.amount
       /\ new.is_bankrupt <=> (moved.cash + charged < 0)
       /\ landing.position = moved.position
       /\ (moved.cash = old.cash + GoBonus) =>
            /\ events'[2] = Ev("passed_go", 0, "none", GoBonus, FALSE)
            /\ events'[3] = landing

\* C18: for every old position p in 0..39 and dice sum s in 2..12 a move
\* sets the position to (p + s) mod 40 and adds exactly 200 to the cash if
\* and only if the new position is below p; the landing of the turn is
\* resolved on the cash that already holds the bonus.
C18_MoveAndGoBonus ==
  /\ []((pc = "turn" /\ turn <= 2) =>
          \A p \in Positions : \A s \in 2 .. 12 : MoveIsModular(p, s))
  /\ [][turn' = turn + 1 => BonusBeforeLanding]_vars

\* a player with cash 100 has passed Go onto Income Tax and paid the 200
\* out of the bonus
C18_Witness ==
  /\ pc = "turn"
  /\ turn = 1
  /\ EventOf(events, "passed_go").amount = GoBonus
  /\ EventOf(events, "landing").action = "pay_tax"
  /\ EventOf(events, "landing").position = 4
  /\ players[Mover].cash = 100
  /\ ~players[Mover].is_bankrupt

\* the landing of a rolled turn, on the players the move left
LandingTransfersRent ==
  LET old == players[Mover]
      new == players'[Mover]
      roll == EventOf(events', "roll")
      moved == move_player(old, roll.amount).player
      landing == EventOf(events', "landing")
      pos == landing.position
      owner == get_property_owner(players, heap, pos)
      rent == calculate_rent(players, heap, pos, owner)
      others_keep_cash(except) ==
        \A j \in DOMAIN players :
          j \notin except => players'[j].cash = players[j].cash
  IN roll.event = "roll" =>
       /\ pos = moved.position
       /\ (is_purchasable(pos) /\ owner # NoOwner /\ owner # Mover) =>
            /\ landing.action = "pay_rent"
            /\ landing.amount = 0 - rent
            /\ new.cash = moved.cash - rent
            /\ players'[owner].cash = players[owner].cash + rent
            /\ new.is_bankrupt <=> (new.cash < 0)
            /\ others_keep_cash({Mover, owner})
       /\ (is_purchasable(pos) /\ owner = Mover) =>
            /\ landing.action = "own_property"
            /\ new.cash = moved.cash
            /\ ~new.is_bankrupt
            /\ others_keep_cash({Mover})
       /\ (~is_purchasable(pos) /\
           property_name(pos) \notin {"Go To Jail", "Income Tax", "Luxury Tax"}) =>
            /\ landing.action = "free_space"
            /\ new.cash = moved.cash
            /\ ~new.is_bankrupt
            /\ others_keep_cash({Mover})

\* C19: a landing on a purchasable position owned by another player takes
\* the computed rent from the lander and gives the same amount to the owner,
\* and the lander is bankrupt afterwards if and only if its cash is below 0;
\* a landing on the lander's own property or on a free space moves no cash.
C19_RentTransfer ==
  [][turn' = turn + 1 => LandingTransfersRent]_vars

\* a rent of 100 was paid out of a cash of exactly 100: cash 0, not bankrupt
C19_Witness ==
  /\ pc = "turn"
  /\ EventOf(events, "landing").action = "pay_rent"
  /\ EventOf(events, "landing").amount = -100
  /\ players[Mover].cash = 0
  /\ ~players[Mover].is_bankrupt
  /\ players[2].cash = 600

\* a rent left the lander with negative cash and bankrupt
RentBankrupts ==
  /\ pc = "turn"
  /\ EventOf(events, "landing").action = "pay_rent"
  /\ players[Mover].cash < 0
  /\ players[Mover].is_bankrupt

\* the mover landed on a position it had bought
LandedOnOwnProperty ==
  /\ pc = "turn"
  /\ EventOf(events, "landing").action = "own_property"

\* the mover landed on a free space
LandedOnFreeSpace ==
  /\ pc = "turn"
  /\ EventOf(events, "landing").action = "free_space"

\* the purchase step of a rolled turn, on the players the landing left
PurchaseStep ==
  LET old == players[Mover]
      new == players'[Mover]
      ref == old.owned_ref
      roll == EventOf(events', "roll")
      moved == move_player(old, roll.amount).player
      landing == EventOf(events', "landing")
      pos == moved.position
      charged == IF landing.action \in {"pay_rent", "pay_tax"}
                   THEN landing.amount ELSE 0
      landed == [players EXCEPT ![Mover] = moved]
      decision == strategy_func(get_strategy(old.risk_tolerance),
                                Mover - 1 = target_player_idx,
                                target_property_position, landed, heap, Mover, pos)
      price == purchase_price(pos)
      bought == heap'[ref] # heap[ref]
  IN roll.event = "roll" =>
       /\ bought =>
            /\ is_purchasable(pos)
            /\ get_property_owner(players, heap, pos) = NoOwner
            /\ decision
            /\ moved.cash - price >= old.min_cash_reserve
            /\ new.cash = moved.cash - price
            /\ heap'[ref] = Append(heap[ref], pos)
            /\ DOMAIN new.houses = DOMAIN old.houses \cup {pos}
            /\ new.houses[pos] = 0
            /\ \A q \in DOMAIN old.houses : new.houses[q] = old.houses[q]
       /\ ~bought =>
            /\ new.cash = moved.cash + charged
            /\ new.houses = old.houses
            /\ heap' = heap
       /\ (~is_purchasable(pos) \/ get_property_owner(players, heap, pos) # NoOwner
           \/ ~decision \/ moved.cash - price < old.min_cash_reserve) => ~bought

\* C20: a purchase is made only on an unowned purchasable landing position,
\* only when the decision function returns true and cash - price is at least
\* the minimum cash reserve; it deducts exactly the price, adds the position
\* to the owned properties and sets its house count to 0. Otherwise, the
\* forced decision for the tracked property included, the purchase step
\* leaves the cash, the owned properties and the house counts unchanged.
C20_PurchaseConditions ==
  [][turn' = turn + 1 => PurchaseStep]_vars

\* the tracked property was bought on the forced decision
C20_Witness ==
  /\ pc = "turn"
  /\ EventOf(events, "purchase").event = "purchase"
  /\ EventOf(events, "purchase").success
  /\ EventOf(events, "purchase").position = target_property_position
  /\ EventOf(events, "purchase").amount = -100
  /\ target_property_position \in Range(heap[players[Mover].owned_ref])
  /\ players[Mover].houses[target_property_position] = 0

\* the forced decision for the tracked property met a cash of 100: nothing
\* was bought
ForcedNotAffordable ==
  /\ pc = "turn"
  /\ turn = 1
  /\ EventOf(events, "purchase").event = "purchase"
  /\ ~EventOf(events, "purchase").success
  /\ EventOf(events, "purchase").amount = 0
  /\ players[Mover].position = target_property_position
  /\ players[Mover].cash = 100
  /\ heap[players[Mover].owned_ref] = <<>>
  /\ players[Mover].houses = <<>>

\* the decision function declined an available position
PurchaseDeclined ==
  /\ pc = "turn"
  /\ EventOf(events, "landing").action = "available_for_purchase"
  /\ EventOf(events, "purchase").event = "none"

\* C21: with P players, after n calls of next_player in a trial the current
\* player index is n mod P, current_turn is n div P and total_turns is n;
\* a call made after a bankrupt player's turn advances like any other.
C21_TurnRotation ==
  /\ [](pc = "loop" =>
          /\ total_turns = turn
          /\ current_player_idx = total_turns % Len(players)
          /\ current_turn = total_turns \div Len(players))
  /\ [][(pc = "loop" /\ turn' = turn + 1) =>
          /\ total_turns' = total_turns + 1
          /\ current_player_idx' = (current_player_idx + 1) % Len(players)
          /\ current_turn' = current_turn +
               (IF current_player_idx = Len(players) - 1 THEN 1 ELSE 0)]_vars

\* three players, four calls: the index has wrapped once, and the second
\* turn of the bankrupt first player was taken in the rotation
C21_Witness ==
  /\ pc = "loop"
  /\ Len(players) = 3
  /\ total_turns = 4
  /\ current_player_idx = 1
  /\ current_turn = 1
  /\ players[1].is_bankrupt

\* the players whose bankrupt flag is not set
NonBankrupt == {i \in DOMAIN players : ~players[i].is_bankrupt}

TrialEndedWithoutWinner ==
  /\ result # NoResult
  /\ ~result.player_won
  /\ ~is_game_over(players)

\* the eligible builds of the player of the last call
EligibleOptions ==
  generate_development_options(
    players[dev_player], get_player_monopolies(players, heap, dev_player))

\* C23: the list an optimizer call returns is in descending priority score,
\* every prefix of it costs no more than cash minus minimum reserve, and no
\* two of its options build on the same position.
C23_GreedyWithinBudget ==
  pc = "apply" =>
    LET p == players[dev_player]
        budget == p.cash - p.min_cash_reserve
    IN /\ \A k \in DOMAIN dev_selected :
            TotalCost(SubSeq(dev_selected, 1, k)) <= budget
       /\ TotalCost(dev_selected) <= budget
       /\ \A a, b \in DOMAIN dev_selected :
            a # b => dev_selected[a].property_positions[1]
                       # dev_selected[b].property_positions[1]
       /\ \A a, b \in DOMAIN dev_selected :
            a < b => ~RatLess(dev_selected[a].ev_per_dollar,
                              dev_selected[b].ev_per_dollar)

\* a call selected builds and left out an eligible one the budget could not
\* hold any more
C23_Witness ==
  /\ pc = "apply"
  /\ Len(dev_selected) >= 1
  /\ \E k \in DOMAIN EligibleOptions :
       /\ \A n \in DOMAIN dev_selected :
            dev_selected[n].property_positions[1]
              # EligibleOptions[k].property_positions[1]
       /\ TotalCost(dev_selected) + EligibleOptions[k].cost
            > players[dev_player].cash - players[dev_player].min_cash_reserve

\* the other players whose bankrupt flag is not set
NonBankruptOpponents(i) ==
  Cardinality({j \in DOMAIN players : j # i /\ ~players[j].is_bankrupt})

OwnsColorGroup(i, pos) ==
  \A k \in DOMAIN color_groups[color(pos)] :
    owns_property(players, heap, i, color_groups[color(pos)][k])

\* C25: for a street with h houses owned by a player, calculate_rent is the
\* color-set rent when h = 0 and the owner holds the whole color group, the
\* base rent when h = 0 otherwise, and the schedule entry of h houses for h
\* in 1..5, with or without a monopoly.
C25_StreetRent ==
  /\ \A i \in DOMAIN players :
       \A pos \in StreetPositions :
         owns_property(players, heap, i, pos) =>
           LET h == HousesGet(players[i].houses, pos)
               rent == calculate_rent(players, heap, pos, i)
           IN /\ (h = 0 /\ OwnsColorGroup(i, pos)) => rent = rent_schedule(pos)[2]
              /\ (h = 0 /\ ~OwnsColorGroup(i, pos)) => rent = rent_schedule(pos)[1]
              /\ h \in 1 .. HotelLevel => rent = rent_schedule(pos)[h + 2]
  /\ \A pos \in StreetPositions : \A h \in 1 .. HotelLevel :
       /\ get_rent(pos, TRUE, h) = rent_schedule(pos)[h + 2]
       /\ get_rent(pos, FALSE, h) = rent_schedule(pos)[h + 2]

\* a street of a monopoly stands at three houses and earns their rent
C25_Witness ==
  \E i \in DOMAIN players :
    \E pos \in StreetPositions :
      /\ owns_property(players, heap, i, pos)
      /\ OwnsColorGroup(i, pos)
      /\ HousesGet(players[i].houses, pos) = 3
      /\ calculate_rent(players, heap, pos, i) = rent_schedule(pos)[5]
      /\ rent_schedule(pos)[5] > rent_schedule(pos)[2]

\* a street owned without its color group earns the base rent
StreetWithoutMonopoly ==
  \E i \in DOMAIN players :
    \E pos \in StreetPositions :
      /\ owns_property(players, heap, i, pos)
      /\ ~OwnsColorGroup(i, pos)
      /\ calculate_rent(players, heap, pos, i) = rent_schedule(pos)[1]

\* the trials of the batch that purchased, and those of them that broke even
PurchasedTrials == {k \in DOMAIN agg_results : agg_results[k].property_purchased}
BrokeEvenTrials == {k \in PurchasedTrials : agg_results[k].break_even_turn > 0}

\* C26: aggregating a batch with a purchased trial never raises, and
\* break_even_rate is the number of purchased trials with a break-even turn
\* over the number of purchased trials; when no purchased trial broke even,
\* break_even_mean and break_even_median are -1, break_even_std is 0,
\* break_even_rate is 0 and the distribution is empty.
C26_NoBreakEvenSentinels ==
  (pc = "done" /\ PurchasedTrials # {}) =>
    /\ "raised" \notin DOMAIN agg_out
    /\ "error" \notin DOMAIN agg_out
    /\ agg_out.break_even_rate =
         Rat(Cardinality(BrokeEvenTrials), Cardinality(PurchasedTrials))
    /\ Len(agg_out.break_even_distribution) = Cardinality(BrokeEvenTrials)
    /\ BrokeEvenTrials = {} =>
         /\ agg_out.break_even_mean = Rat(-1, 1)
         /\ agg_out.break_even_median = Rat(-1, 1)
         /\ agg_out.break_even_std = Rat(0, 1)
         /\ agg_out.break_even_rate = Rat(0, 1)
         /\ agg_out.break_even_distribution = <<>>
    /\ BrokeEvenTrials # {} =>
         /\ agg_out.break_even_mean.num > 0
         /\ agg_out.break_even_median.num > 0

\* a batch of a trial that purchased without breaking even and one that did
\* not purchase has been aggregated
C26_Witness ==
  /\ pc = "done"
  /\ Cardinality(PurchasedTrials) = 1
  /\ Len(agg_results) = 2
  /\ BrokeEvenTrials = {}
  /\ agg_out.break_even_mean = Rat(-1, 1)
  /\ agg_out.break_even_distribution = <<>>

\* one of two purchased trials broke even: the rate is 1/2
HalfBrokeEven ==
  /\ pc = "done"
  /\ Cardinality(PurchasedTrials) = 2
  /\ Cardinality(BrokeEvenTrials) = 1
  /\ agg_out.break_even_rate = Rat(1, 2)

\* the rent the analyzed player collects on the tracked property in the
\* iteration being taken: the current player is another player who rolls and
\* ends the turn on the tracked property while the analyzed player owns it
RentCollectedThisTurn ==
  LET i == current_player_idx + 1
      owner == get_property_owner(players, heap, target_property_position)
  IN IF /\ i - 1 # target_player_idx
        /\ ~players[i].is_bankrupt
        /\ ~players[i].in_jail
        /\ players'[i].position = target_property_position
        /\ owner = target_player_idx + 1
       THEN calculate_rent(players, heap, target_property_position, owner)
       ELSE 0

\* the series as it stands: one entry per executed turn, 0 before the
\* purchase, at least -price and non-decreasing from the purchase turn on,
\* ending at total_rent_collected - purchase_price
SeriesShape ==
  /\ Len(rent_by_turn) = turn
  /\ ~tracker.was_purchased => \A t \in DOMAIN rent_by_turn : rent_by_turn[t] = 0
  /\ tracker.was_purchased =>
       /\ tracker.purchase_turn \in 0 .. (turn - 1)
       /\ \A t \in DOMAIN rent_by_turn :
            IF t - 1 < tracker.purchase_turn
              THEN rent_by_turn[t] = 0
              ELSE /\ rent_by_turn[t] >= 0 - tracker.purchase_price
                   /\ t > 1 /\ t - 2 >= tracker.purchase_turn =>
                        rent_by_turn[t] >= rent_by_turn[t - 1]
       /\ rent_by_turn[tracker.purchase_turn + 1] = 0 - tracker.purchase_price
       /\ rent_by_turn[turn] =
            tracker.total_rent_collected - tracker.purchase_price

\* C27: the cumulative-net series of a trial has one entry per executed turn;
\* an entry is 0 before the tracked property is purchased and from the
\* purchase turn on it is the rent the analyzed player has collected on the
\* tracked property so far minus the purchase price, hence non-decreasing and
\* ending at total_rent_collected - purchase_price; the result carries the
\* series unchanged.
C27_CumulativeNetSeries ==
  /\ [](pc = "loop" => SeriesShape)
  /\ [][(pc = "loop" /\ turn' = turn + 1) =>
          /\ tracker'.total_rent_collected =
               tracker.total_rent_collected + RentCollectedThisTurn
          /\ SubSeq(rent_by_turn', 1, turn) = rent_by_turn
          /\ rent_by_turn'[turn + 1] =
               IF tracker'.was_purchased
                 THEN tracker'.total_rent_collected - tracker'.purchase_price
                 ELSE 0]_vars
  /\ [](result # NoResult =>
          /\ result.rent_by_turn = rent_by_turn
          /\ result.turns_played = Len(rent_by_turn))

\* bought on a later turn than the first, then rent collected: the series
\* is 0, then -200, then 0
C27_Witness ==
  /\ pc = "loop"
  /\ tracker.was_purchased
  /\ tracker.purchase_turn > 0
  /\ rent_by_turn[1] = 0
  /\ rent_by_turn[tracker.purchase_turn + 1] = -200
  /\ rent_by_turn[turn] = 0
  /\ tracker.total_rent_collected = 200

\* the players who own position pos
OwnersOf(pos) == {i \in DOMAIN players : owns_property(players, heap, i, pos)}

\* the configurations give no position to two players
ConfigsExclusive ==
  \A i, j \in DOMAIN player_configs :
    i # j => Range(heap[player_configs[i].owned_ref])
               \cap Range(heap[player_configs[j].owned_ref]) = {}

\* C28: when the configurations give each position to at most one player,
\* every position has at most one owner in every state of a trial, and over
\* every turn a position that has an owner keeps that owner, bankrupt or not.
C28_ExclusiveOwnership ==
  /\ [](ConfigsExclusive =>
          \A pos \in Positions : Cardinality(OwnersOf(pos)) <= 1)
  /\ [][(ConfigsExclusive /\ pc = "loop" /\ turn' = turn + 1) =>
          \A i \in DOMAIN players :
            \A pos \in Positions :
              owns_property(players, heap, i, pos)
                => owns_property(players', heap', i, pos)]_vars

\* a bankrupt player has had its empty turn and still owns what it owned,
\* and another player owns a position bought in the trial
C28_Witness ==
  /\ pc = "loop"
  /\ turn = 4
  /\ Len(players) = 3
  /\ players[1].is_bankrupt
  /\ OwnersOf(1) = {1}
  /\ \E i \in DOMAIN players :
       \E pos \in Range(heap[players[i].owned_ref]) :
         pos \notin Range(heap[player_configs[i].owned_ref])

TotalCash(pl) == SeqSum([i \in DOMAIN pl |-> pl[i].cash])

\* what a turn may add to the sum of all cash: +200 for a pass of the start
\* space, -200 or -100 for a landing on Income Tax or Luxury Tax, -price for
\* a position bought
TurnCashDelta ==
  LET old == players[Mover]
      rolled == ~old.is_bankrupt /\ ~old.in_jail
      landed_on == (old.position + EventOf(events', "roll").amount) % BoardSize
      bonus == IF landed_on < old.position THEN GoBonus ELSE 0
      tax == IF property_name(landed_on) = "Income Tax" THEN IncomeTaxAmount
             ELSE IF property_name(landed_on) = "Luxury Tax" THEN LuxuryTaxAmount
             ELSE 0
      price == IF heap'[old.owned_ref] # heap[old.owned_ref]
                 THEN purchase_price(landed_on) ELSE 0
  IN IF rolled THEN bonus - tax - price ELSE 0

\* C30: over every turn the sum of all players' cash changes by +200 for a
\* pass of the start space, -200 or -100 for a landing on Income Tax or
\* Luxury Tax and -price for a purchase, and by nothing else: a rent payment
\* leaves the sum unchanged, also when it takes the payer below 0.
C30_CashAccounting ==
  [][turn' = turn + 1 =>
       TotalCash(players') = TotalCash(players) + TurnCashDelta]_vars

\* a rent of 200 took a payer with cash 100 to -100 and bankrupt, and the sum
\* of all cash is what the configurations held
C30_Witness ==
  /\ pc = "turn"
  /\ turn = 1
  /\ EventOf(events, "landing").action = "pay_rent"
  /\ EventOf(events, "passed_go").event = "none"
  /\ players[Mover].cash = -100
  /\ players[Mover].is_bankrupt
  /\ TotalCash(players) = TotalCash(player_configs)

====
